---------------------------- MODULE Spec2Model ----------------------------
(***************************************************************************)
(* Scheduling-mode / objective configuration engine of the virtual power   *)
(* plant: VPPSchedulingManager and OptimizedVPPModel                       *)
(* (src/src/models/scheduling_modes.py) on top of VPPOptimizationModel     *)
(* (src/src/models/vpp_model.py).                                          *)
(*                                                                         *)
(* Python dicts are functions whose DOMAIN is the key set ('k in d' is     *)
(* k \in DOMAIN d).  Python numbers are exact fixed-point values with three *)
(* decimals: the integer n stands for n / Scale, so 0.5 is 500 and 35.5 is *)
(* 35500.  A flag (enable) is a BOOLEAN.                                  *)
(***************************************************************************)
EXTENDS Integers, Sequences, FiniteSets, TLC

VARIABLES
    config,             \* VPPSchedulingManager.config (base configuration)
    mode_configs,       \* VPPSchedulingManager.mode_configs
    objective_configs,  \* VPPSchedulingManager.objective_configs
    current_mode,       \* VPPSchedulingManager.current_mode
    current_objective,  \* VPPSchedulingManager.current_objective
    model,              \* the OptimizedVPPModel last returned by the manager
    call,               \* the last call made, its arguments and its outcome
    batch,              \* main.py: the locals of the running batch comparison
    solver              \* OptimizationSolver: configuration and retry loop

vars == <<config, mode_configs, objective_configs, current_mode,
          current_objective, model, call, batch, solver>>

-----------------------------------------------------------------------------
(* Fixed-point arithmetic *)

Scale == 10 * 10 * 10

Num(n) == n * Scale

\* a * b of two fixed-point values
Mul(a, b) == (a * b) \div Scale

Max2(a, b) == IF a >= b THEN a ELSE b

\* max(values) of a non-empty sequence
RECURSIVE SeqMax(_)
SeqMax(s) ==
    IF Len(s) = 1 THEN s[1] ELSE Max2(s[1], SeqMax(Tail(s)))

-----------------------------------------------------------------------------
(* Python dict operations *)

EmptyDict == [k \in {} |-> 0]

Has(d, k) == k \in DOMAIN d

\* d.get(k, default)
Get(d, k, default) == IF k \in DOMAIN d THEN d[k] ELSE default

\* d with d[k] = v
Put(d, k, v) == [x \in (DOMAIN d) \cup {k} |-> IF x = k THEN v ELSE d[x]]

\* d after 'del d[k]' for each k of ks
Del(d, ks) == [x \in (DOMAIN d) \ ks |-> d[x]]

None == "None"

-----------------------------------------------------------------------------
(* Enumerations *)

RENEWABLE_STORAGE == "renewable_storage"
ADJUSTABLE_STORAGE == "adjustable_storage"
TRADITIONAL == "traditional"
NO_RENEWABLE == "no_renewable"
STORAGE_ONLY == "storage_only"
FULL_SYSTEM == "full_system"

SchedulingMode ==
    {RENEWABLE_STORAGE, ADJUSTABLE_STORAGE, TRADITIONAL, NO_RENEWABLE,
     STORAGE_ONLY, FULL_SYSTEM}

COST_MINIMIZATION == "cost_minimization"
REVENUE_MAXIMIZATION == "revenue_maximization"
PROFIT_MAXIMIZATION == "profit_maximization"
ANCILLARY_REVENUE_MAX == "ancillary_revenue_max"
GRID_SUPPORT_OPTIMIZED == "grid_support_optimized"

OptimizationObjective ==
    {COST_MINIMIZATION, REVENUE_MAXIMIZATION, PROFIT_MAXIMIZATION,
     ANCILLARY_REVENUE_MAX, GRID_SUPPORT_OPTIMIZED}

-----------------------------------------------------------------------------
(* Base configurations *)

\* the resource catalogue of VPPOptimizationModel._get_default_config
DefaultConfig ==
    [energy_resources |->
        [photovoltaic |->
            [capacity_mw |-> Num(50), variable_cost_yuan_mwh |-> Num(5)],
         wind |->
            [capacity_mw |-> Num(30), variable_cost_yuan_mwh |-> Num(8)],
         gas_turbine |->
            [capacity_mw |-> Num(100), variable_cost_yuan_mwh |-> Num(600),
             min_output_ratio |-> 300],
         battery_storage |->
            [power_capacity_mw |-> Num(50), energy_capacity_mwh |-> Num(200),
             charge_efficiency |-> 950, discharge_efficiency |-> 950,
             self_discharge_rate |-> 1, initial_soc |-> 500,
             charge_cost_yuan_mwh |-> Num(10),
             discharge_cost_yuan_mwh |-> Num(15)]],
     adjustable_loads |->
        [chiller |->
            [rated_power_mw |-> Num(20), min_power_ratio |-> 300,
             max_power_ratio |-> 1000, efficiency |-> 850,
             operating_cost_yuan_mwh |-> Num(50)],
         heat_pump |->
            [rated_power_mw |-> Num(15), min_power_ratio |-> 200,
             max_power_ratio |-> 1000, cop |-> 3500,
             operating_cost_yuan_mwh |-> Num(40)]],
     grid_connection |->
        [max_purchase_mw |-> Num(1000), max_sale_mw |-> Num(500),
         sale_price_ratio |-> 950]]

\* One ancillary service section of the battery: the enable flag,
\* max_capacity_mw when cap = {c} (cap = {}: the key is absent) and, when
\* priced, the up and down prices.
ServiceConfig(enable, cap, priced, up, down) ==
    LET d0 == [enable |-> enable]
        d1 == IF cap = {} THEN d0
              ELSE Put(d0, "max_capacity_mw", Num(CHOOSE c \in cap : TRUE))
    IN  IF priced
        THEN Put(Put(d1, "up_price_yuan_mw", Num(up)),
                 "down_price_yuan_mw", Num(down))
        ELSE d1

\* the ancillary_services section described by a
AncillaryConfig(a) ==
    [frequency_regulation |-> ServiceConfig(a.fe, a.F, a.priced, 90, 75),
     spinning_reserve |-> ServiceConfig(a.se, a.S, a.priced, 65, 45)]

Anc(present, fe, F, se, S, priced) ==
    [present |-> present, fe |-> fe, F |-> F, se |-> se, S |-> S,
     priced |-> priced]

\* The ancillary sections the base configuration is drawn from: no
\* ancillary_services key, both disabled, one or both enabled, capacity keys
\* present or absent, a reservation above and below the floor, prices present
\* or absent.
AncillaryChoices ==
    {Anc(FALSE, FALSE, {}, FALSE, {}, FALSE),
     Anc(TRUE, FALSE, {20}, FALSE, {15}, TRUE),
     Anc(TRUE, TRUE, {20}, FALSE, {15}, TRUE),
     Anc(TRUE, TRUE, {60}, FALSE, {15}, TRUE),
     Anc(TRUE, TRUE, {}, FALSE, {15}, TRUE),
     Anc(TRUE, FALSE, {20}, TRUE, {15}, TRUE),
     Anc(TRUE, FALSE, {20}, TRUE, {}, TRUE),
     Anc(TRUE, TRUE, {20}, TRUE, {15}, TRUE),
     Anc(TRUE, TRUE, {60}, TRUE, {15}, TRUE),
     Anc(TRUE, TRUE, {}, TRUE, {}, TRUE),
     Anc(TRUE, TRUE, {20}, TRUE, {15}, FALSE)}

EnergyResourceKinds ==
    {"photovoltaic", "wind", "gas_turbine", "battery_storage"}

AdjustableLoadKinds == {"chiller", "heat_pump"}

\* A base configuration with the energy resources R, the adjustable loads AL
\* (no adjustable_loads section when hasAL is false), the ancillary section
\* anc and the battery's nominal power N.
BaseConfig(R, hasAL, AL, anc, N) ==
    LET er0 == DefaultConfig.energy_resources
        b0 == [er0.battery_storage EXCEPT !.power_capacity_mw = Num(N)]
        b1 == IF anc.present
              THEN Put(b0, "ancillary_services", AncillaryConfig(anc))
              ELSE b0
        er1 == [er0 EXCEPT !.battery_storage = b1]
        er == Del(er1, EnergyResourceKinds \ R)
        c0 == [DefaultConfig EXCEPT !.energy_resources = er]
    IN  IF hasAL
        THEN [c0 EXCEPT !.adjustable_loads =
                 Del(DefaultConfig.adjustable_loads, AdjustableLoadKinds \ AL)]
        ELSE Del(c0, {"adjustable_loads"})

BothEnabled == Anc(TRUE, TRUE, {20}, TRUE, {15}, TRUE)

\* every resource present; the ancillary section varies, and the battery's
\* power with it
FullConfigs ==
    {BaseConfig(EnergyResourceKinds, TRUE, AdjustableLoadKinds, a, 50) :
        a \in AncillaryChoices}
    \cup {BaseConfig(EnergyResourceKinds, TRUE, AdjustableLoadKinds,
                     BothEnabled, 20)}

\* catalogues that lack some resource kinds, both services enabled
PartialConfigs ==
    {BaseConfig(p[1], p[2], p[3], BothEnabled, 50) :
        p \in {<<{"photovoltaic", "battery_storage"}, FALSE, {}>>,
               <<{"gas_turbine", "battery_storage"}, TRUE, {"chiller"}>>,
               <<{"battery_storage"}, TRUE, {}>>,
               <<{"photovoltaic", "wind", "gas_turbine"}, TRUE, {"chiller"}>>,
               <<EnergyResourceKinds, FALSE, {}>>,
               <<EnergyResourceKinds, TRUE, {}>>,
               <<EnergyResourceKinds, TRUE, {"chiller"}>>}}

\* _load_config returns {} when the file cannot be read
BaseConfigs ==
    FullConfigs \cup PartialConfigs
        \cup {EmptyDict, Del(DefaultConfig, {"energy_resources"})}

-----------------------------------------------------------------------------
(* VPPSchedulingManager: mode configurations *)

\* the section written over ancillary_services by every restricted mode
ServicesDisabled ==
    [frequency_regulation |-> [enable |-> FALSE],
     spinning_reserve |-> [enable |-> FALSE]]

\* energy_resources with the battery's ancillary_services overwritten, when
\* the battery has that key
RemoveAncillary(er) ==
    IF Has(er.battery_storage, "ancillary_services")
    THEN [er EXCEPT !.battery_storage =
             Put(er.battery_storage, "ancillary_services", ServicesDisabled)]
    ELSE er

_get_renewable_storage_config(base_config) ==
    LET c1 ==
          IF Has(base_config, "energy_resources")
          THEN LET er == base_config.energy_resources
               IN  Put(base_config, "energy_resources",
                       RemoveAncillary(
                         [photovoltaic |-> Get(er, "photovoltaic", EmptyDict),
                          wind |-> Get(er, "wind", EmptyDict),
                          battery_storage |->
                              Get(er, "battery_storage", EmptyDict)]))
          ELSE base_config
    IN  Put(c1, "adjustable_loads", EmptyDict)

_get_adjustable_storage_config(base_config) ==
    IF Has(base_config, "energy_resources")
    THEN Put(base_config, "energy_resources",
             RemoveAncillary(
               [battery_storage |->
                   Get(base_config.energy_resources, "battery_storage",
                       EmptyDict)]))
    ELSE base_config

\* the derivation with the ancillary section left as configured
TraditionalKeepsAncillary(base_config) == base_config

_get_traditional_config(base_config) ==
    IF /\ Has(base_config, "energy_resources")
       /\ Has(base_config.energy_resources, "battery_storage")
    THEN Put(base_config, "energy_resources",
             RemoveAncillary(base_config.energy_resources))
    ELSE base_config

\* the derivation with the wind resource left in
NoRenewableKeepsWind(base_config) ==
    IF Has(base_config, "energy_resources")
    THEN LET renewable_free_config ==
                 Del(base_config.energy_resources, {"photovoltaic"})
         IN  Put(base_config, "energy_resources",
                 IF Has(renewable_free_config, "battery_storage")
                 THEN RemoveAncillary(renewable_free_config)
                 ELSE renewable_free_config)
    ELSE base_config

_get_no_renewable_config(base_config) ==
    IF Has(base_config, "energy_resources")
    THEN LET renewable_free_config ==
                 Del(base_config.energy_resources, {"photovoltaic", "wind"})
         IN  Put(base_config, "energy_resources",
                 IF Has(renewable_free_config, "battery_storage")
                 THEN RemoveAncillary(renewable_free_config)
                 ELSE renewable_free_config)
    ELSE base_config

_get_storage_only_config(base_config) ==
    LET c1 ==
          IF Has(base_config, "energy_resources")
          THEN Put(base_config, "energy_resources",
                   RemoveAncillary(
                     [battery_storage |->
                         Get(base_config.energy_resources, "battery_storage",
                             EmptyDict)]))
          ELSE base_config
    IN  Put(c1, "adjustable_loads", EmptyDict)

_initialize_mode_configs(cfg) ==
    [mode \in SchedulingMode |->
        CASE mode = RENEWABLE_STORAGE -> _get_renewable_storage_config(cfg)
          [] mode = ADJUSTABLE_STORAGE -> _get_adjustable_storage_config(cfg)
          [] mode = TRADITIONAL -> _get_traditional_config(cfg)
          [] mode = NO_RENEWABLE -> _get_no_renewable_config(cfg)
          [] mode = STORAGE_ONLY -> _get_storage_only_config(cfg)
          [] mode = FULL_SYSTEM -> cfg]

\* the enable flag of one service of a battery configuration
ServiceEnabled(battery_config, service) ==
    Get(Get(Get(battery_config, "ancillary_services", EmptyDict),
            service, EmptyDict),
        "enable", FALSE)

\* get_mode_resources, given mode_configs[mode]
get_mode_resources(mode_config) ==
    LET energy_resources == Get(mode_config, "energy_resources", EmptyDict)
        adjustable_loads == Get(mode_config, "adjustable_loads", EmptyDict)
        battery_config == Get(energy_resources, "battery_storage", EmptyDict)
    IN  [photovoltaic |-> Has(energy_resources, "photovoltaic"),
         wind |-> Has(energy_resources, "wind"),
         gas_turbine |-> Has(energy_resources, "gas_turbine"),
         battery_storage |-> Has(energy_resources, "battery_storage"),
         adjustable_loads |-> Cardinality(DOMAIN adjustable_loads) > 0,
         ancillary_services |->
            /\ Has(energy_resources, "battery_storage")
            /\ \/ ServiceEnabled(battery_config, "frequency_regulation")
               \/ ServiceEnabled(battery_config, "spinning_reserve")]

\* get_mode_description: one sentence of prose per mode, stood for here by
\* the mode it describes
get_mode_description(mode) ==
    IF mode \in SchedulingMode THEN "description of " \o mode ELSE "unknown mode"

-----------------------------------------------------------------------------
(* VPPSchedulingManager: objective configurations *)

\* the entry of one objective in _initialize_objective_configs, without its
\* two description strings
ObjectiveConfig(objective) ==
        CASE objective = COST_MINIMIZATION ->
               [type |-> "minimization", primary_focus |-> "cost_reduction",
                variable_costs_sign |-> Num(1), revenue_sign |-> Num(-1)]
          [] objective = REVENUE_MAXIMIZATION ->
               [type |-> "maximization",
                primary_focus |-> "revenue_generation",
                variable_costs_sign |-> Num(-1), revenue_sign |-> Num(1)]
          [] objective = PROFIT_MAXIMIZATION ->
               [type |-> "maximization",
                primary_focus |-> "profit_optimization",
                variable_costs_sign |-> Num(-1), revenue_sign |-> Num(1)]
          [] objective = ANCILLARY_REVENUE_MAX ->
               [type |-> "maximization",
                primary_focus |-> "ancillary_services",
                variable_costs_sign |-> -100, revenue_sign |-> Num(1),
                ancillary_weight |-> 2000]
          [] objective = GRID_SUPPORT_OPTIMIZED ->
               [type |-> "multi_objective", primary_focus |-> "grid_stability",
                variable_costs_sign |-> -500, revenue_sign |-> Num(1),
                grid_support_weight |-> 1500, min_profit_ratio |-> 800]

\* the table with the profit objective signed like cost minimisation
ObjectiveConfigsProfitUnflipped ==
    [objective \in OptimizationObjective |->
        IF objective = PROFIT_MAXIMIZATION
        THEN [ObjectiveConfig(objective) EXCEPT
                  !.variable_costs_sign = Num(1), !.revenue_sign = Num(-1)]
        ELSE ObjectiveConfig(objective)]

_initialize_objective_configs ==
    [objective \in OptimizationObjective |-> ObjectiveConfig(objective)]

-----------------------------------------------------------------------------
(* OptimizedVPPModel: coefficient transformation *)

\* no object (Python None) in a slot that otherwise holds an object
NoObject == EmptyDict

\* OptimizedVPPModel.__init__ (periods is len(time_index))
OptimizedVPPModel(periods, mode_config, mode, objective_config, objective) ==
    [periods |-> periods,
     config |-> mode_config,
     mode |-> mode,
     objective_config |->
        IF objective_config = EmptyDict
        THEN [type |-> "minimization", variable_costs_sign |-> Num(1),
              revenue_sign |-> Num(-1)]
        ELSE objective_config,
     objective |-> IF objective = None THEN COST_MINIMIZATION ELSE objective,
     energy_system |-> NoObject,
     components |-> EmptyDict]

\* the transformation with revenues signed like costs
ApplyCostSignOnly(self, variable_cost, is_revenue) ==
    Mul(variable_cost, Get(self.objective_config, "variable_costs_sign", Num(1)))

_apply_objective_config_to_flow(self, variable_cost, is_revenue) ==
    IF is_revenue
    THEN Mul(variable_cost, Get(self.objective_config, "revenue_sign", Num(-1)))
    ELSE Mul(variable_cost,
             Get(self.objective_config, "variable_costs_sign", Num(1)))

_apply_objective_weights(self, variable_cost, weight_type) ==
    IF weight_type = "ancillary" /\ Has(self.objective_config, "ancillary_weight")
    THEN Mul(variable_cost, self.objective_config.ancillary_weight)
    ELSE IF /\ weight_type = "grid_support"
            /\ Has(self.objective_config, "grid_support_weight")
         THEN Mul(variable_cost, self.objective_config.grid_support_weight)
         ELSE variable_cost

-----------------------------------------------------------------------------
(* Network nodes (oemof.solph components as the assembler constructs them) *)

Bus(label) == [kind |-> "Bus", label |-> label]

\* a Source with one output flow, keyed by self.components['bus_electricity']
\* (bus: the label of that bus); flow holds the keyword arguments
Source(label, flow) ==
    [kind |-> "Source", label |-> label, bus |-> "bus_electricity",
     outputs |-> flow]

\* a Sink with one input flow, keyed by self.components['bus_electricity']
Sink(label, flow) ==
    [kind |-> "Sink", label |-> label, bus |-> "bus_electricity",
     inputs |-> flow]

\* a / b of two series entries, kept exact
Ratio(a, b) == [num |-> a, den |-> b]

\* the outcome of one assembly step: the components dict it leaves and
\* whether it raised (a KeyError on a missing configuration key)
Built(components) == [components |-> components, raised |-> FALSE]
Raised(components) == [components |-> components, raised |-> TRUE]

HasAll(d, keys) == keys \subseteq DOMAIN d

-----------------------------------------------------------------------------
(* VPPOptimizationModel: the component builders OptimizedVPPModel inherits *)

_create_buses(components) ==
    Built(Put(components, "bus_electricity", Bus("bus_electricity")))

\* the load sink under the label of the grid sink
LoadDemandLabelledGridSink(components, load_data) ==
    Built(Put(components, "load_demand",
              Sink("grid_sink",
                   [fix |-> load_data, nominal_value |-> Num(1)])))

_create_load_demand(components, load_data) ==
    Built(Put(components, "load_demand",
              Sink("load_demand",
                   [fix |-> load_data, nominal_value |-> Num(1)])))

\* the series normalised by its peak whatever the peak
RenewableSourceAlwaysNormalised(label, data, resource_config, periods) ==
    Source(label,
           [fix |-> [t \in 1..Len(data) |-> Ratio(data[t], SeqMax(data))],
            nominal_value |-> SeqMax(data),
            variable_costs |-> resource_config.variable_cost_yuan_mwh])

\* one renewable Source: the normalised series when its peak is positive,
\* else the degenerate source of capacity 1 with an all-zero profile
RenewableSource(label, data, resource_config, periods) ==
    IF SeqMax(data) > 0
    THEN Source(label,
                [fix |-> [t \in 1..Len(data) |-> Ratio(data[t], SeqMax(data))],
                 nominal_value |-> SeqMax(data),
                 variable_costs |-> resource_config.variable_cost_yuan_mwh])
    ELSE Source(label,
                [fix |-> [t \in 1..periods |-> Ratio(0, 1)],
                 nominal_value |-> Num(1),
                 variable_costs |-> resource_config.variable_cost_yuan_mwh])

_create_renewable_sources(self, components, pv_data, wind_data) ==
    LET er == self.config.energy_resources
    IN  IF /\ HasAll(er, {"photovoltaic", "wind"})
           /\ Has(er.photovoltaic, "variable_cost_yuan_mwh")
           /\ Has(er.wind, "variable_cost_yuan_mwh")
        THEN Built(Put(components, "renewable_sources",
                       <<RenewableSource("pv_source", pv_data,
                                         er.photovoltaic, self.periods),
                         RenewableSource("wind_source", wind_data,
                                         er.wind, self.periods)>>))
        ELSE Raised(components)

_create_conventional_generation(self, components) ==
    LET gas_config == self.config.energy_resources.gas_turbine
    IN  IF HasAll(gas_config, {"capacity_mw", "variable_cost_yuan_mwh",
                               "min_output_ratio"})
        THEN Built(Put(components, "conventional_generation",
                       <<Source("gas_turbine",
                                [nominal_value |-> gas_config.capacity_mw,
                                 variable_costs |->
                                     gas_config.variable_cost_yuan_mwh,
                                 min |-> gas_config.min_output_ratio])>>))
        ELSE Raised(components)

\* the Sink of one adjustable load
AdjustableLoad(label, load_config) ==
    Sink(label,
         [nominal_value |-> load_config.rated_power_mw,
          variable_costs |-> load_config.operating_cost_yuan_mwh,
          min |-> load_config.min_power_ratio,
          max |-> load_config.max_power_ratio])

AdjustableLoadKeys ==
    {"rated_power_mw", "operating_cost_yuan_mwh", "min_power_ratio",
     "max_power_ratio"}

_create_adjustable_loads(self, components) ==
    LET adjustable_loads_config ==
            Get(self.config, "adjustable_loads", EmptyDict)
        hasChiller == Has(adjustable_loads_config, "chiller")
        hasHeatPump == Has(adjustable_loads_config, "heat_pump")
        chiller ==
            IF hasChiller
            THEN <<AdjustableLoad("chiller_load",
                                  adjustable_loads_config.chiller)>>
            ELSE <<>>
        heat_pump ==
            IF hasHeatPump
            THEN <<AdjustableLoad("heat_pump_load",
                                  adjustable_loads_config.heat_pump)>>
            ELSE <<>>
    IN  IF /\ hasChiller =>
                HasAll(adjustable_loads_config.chiller, AdjustableLoadKeys)
           /\ hasHeatPump =>
                HasAll(adjustable_loads_config.heat_pump, AdjustableLoadKeys)
        THEN Built(Put(components, "adjustable_loads", chiller \o heat_pump))
        ELSE Raised(components)

-----------------------------------------------------------------------------
(* OptimizedVPPModel: storage, grid connection and assembly *)

BatteryKeys ==
    {"power_capacity_mw", "charge_cost_yuan_mwh", "discharge_cost_yuan_mwh",
     "energy_capacity_mwh", "initial_soc", "charge_efficiency",
     "discharge_efficiency", "self_discharge_rate"}

\* the reservation without the floor of 60% of the nominal power
AvailableWithoutFloor(battery_config, freq_reg_config, spin_reserve_config) ==
    LET a0 == battery_config.power_capacity_mw
        a1 == IF Get(freq_reg_config, "enable", FALSE)
              THEN a0 - Mul(Get(freq_reg_config, "max_capacity_mw", 0), 500)
              ELSE a0
    IN  IF Get(spin_reserve_config, "enable", FALSE)
        THEN a1 - Mul(Get(spin_reserve_config, "max_capacity_mw", 0), 300)
        ELSE a1

\* the power left for energy trading once the enabled services have
\* reserved their share
AvailablePowerCapacity(battery_config, freq_reg_config, spin_reserve_config) ==
    LET a0 == battery_config.power_capacity_mw
        a1 == IF Get(freq_reg_config, "enable", FALSE)
              THEN a0 - Mul(Get(freq_reg_config, "max_capacity_mw", 0), 500)
              ELSE a0
        a2 == IF Get(spin_reserve_config, "enable", FALSE)
              THEN a1 - Mul(Get(spin_reserve_config, "max_capacity_mw", 0), 300)
              ELSE a1
    IN  Max2(a2, Mul(battery_config.power_capacity_mw, 600))

\* the GenericStorage node of the battery
BatteryStorage(self, battery_config, available_power_capacity) ==
    [kind |-> "GenericStorage",
     label |-> "battery_storage",
     bus |-> "bus_electricity",
     inputs |->
        [nominal_value |-> available_power_capacity,
         variable_costs |->
            _apply_objective_config_to_flow(
                self, battery_config.charge_cost_yuan_mwh, FALSE)],
     outputs |->
        [nominal_value |-> available_power_capacity,
         variable_costs |->
            _apply_objective_config_to_flow(
                self, battery_config.discharge_cost_yuan_mwh, FALSE)],
     nominal_storage_capacity |-> battery_config.energy_capacity_mwh,
     initial_storage_level |-> battery_config.initial_soc,
     inflow_conversion_factor |-> battery_config.charge_efficiency,
     outflow_conversion_factor |-> battery_config.discharge_efficiency,
     loss_rate |-> battery_config.self_discharge_rate,
     invest_relation_input_capacity |-> Ratio(1, 6),
     invest_relation_output_capacity |-> Ratio(1, 6)]

\* a service price signed as a cost
ServiceCostAsCost(self, service_config, key, default) ==
    LET cost == _apply_objective_config_to_flow(
                    self, Get(service_config, key, Num(default)), FALSE)
    IN  IF self.objective = ANCILLARY_REVENUE_MAX
        THEN _apply_objective_weights(self, cost, "ancillary")
        ELSE cost

\* the price of one service direction as it enters the network
ServiceCost(self, service_config, key, default) ==
    LET cost == _apply_objective_config_to_flow(
                    self, Get(service_config, key, Num(default)), TRUE)
    IN  IF self.objective = ANCILLARY_REVENUE_MAX
        THEN _apply_objective_weights(self, cost, "ancillary")
        ELSE cost

\* the up Sink and down Source of one enabled service, none when disabled
ServiceComponents(self, service_config, prefix, capacity, up, down) ==
    IF Get(service_config, "enable", FALSE)
    THEN <<Sink(prefix \o "_up_service",
                [nominal_value |->
                    Get(service_config, "max_capacity_mw", Num(capacity)),
                 variable_costs |->
                    ServiceCost(self, service_config, "up_price_yuan_mw", up)]),
           Source(prefix \o "_down_service",
                  [nominal_value |->
                      Get(service_config, "max_capacity_mw", Num(capacity)),
                   variable_costs |->
                      ServiceCost(self, service_config, "down_price_yuan_mw",
                                  down)])>>
    ELSE <<>>

_create_energy_storage_with_objective(self, components) ==
    LET battery_config == self.config.energy_resources.battery_storage
        ancillary_config == Get(battery_config, "ancillary_services", EmptyDict)
        freq_reg_config ==
            Get(ancillary_config, "frequency_regulation", EmptyDict)
        spin_reserve_config ==
            Get(ancillary_config, "spinning_reserve", EmptyDict)
    IN  IF HasAll(battery_config, BatteryKeys)
        THEN Built(Put(components, "energy_storage",
                 <<BatteryStorage(self, battery_config,
                       AvailablePowerCapacity(battery_config, freq_reg_config,
                                              spin_reserve_config))>>
                 \o ServiceComponents(self, freq_reg_config, "freq_reg",
                                      20, 80, 70)
                 \o ServiceComponents(self, spin_reserve_config,
                                      "spin_reserve", 15, 60, 50)))
        ELSE Raised(components)

\* purchase_costs: one entry per price
PurchaseCosts(self, price_data) ==
    [t \in 1..Len(price_data) |->
        _apply_objective_config_to_flow(self, price_data[t], FALSE)]

\* sale costs at the full market price
SaleCostsAtFullPrice(self, grid_config, price_data) ==
    [t \in 1..Len(price_data) |->
        _apply_objective_config_to_flow(self, price_data[t], TRUE)]

\* sale_costs: one entry per price
SaleCosts(self, grid_config, price_data) ==
    [t \in 1..Len(price_data) |->
        _apply_objective_config_to_flow(
            self, Mul(price_data[t], grid_config.sale_price_ratio), TRUE)]

\* the grid connection of an earlier assembly kept when there is one
GridConnectionKeptOnceCreated(self, components, price_data) ==
    IF Has(components, "grid_connection")
    THEN Built(components)
    ELSE IF /\ Has(self.config, "grid_connection")
            /\ HasAll(self.config.grid_connection,
                      {"sale_price_ratio", "max_purchase_mw", "max_sale_mw"})
         THEN LET grid_config == self.config.grid_connection
              IN  Built(Put(components, "grid_connection",
                      <<Source("grid_source",
                               [variable_costs |->
                                    PurchaseCosts(self, price_data),
                                nominal_value |->
                                    grid_config.max_purchase_mw]),
                        Sink("grid_sink",
                             [variable_costs |->
                                  SaleCosts(self, grid_config, price_data),
                              nominal_value |-> grid_config.max_sale_mw])>>))
         ELSE Raised(components)

_create_grid_connection_with_objective(self, components, price_data) ==
    IF /\ Has(self.config, "grid_connection")
       /\ HasAll(self.config.grid_connection,
                 {"sale_price_ratio", "max_purchase_mw", "max_sale_mw"})
    THEN LET grid_config == self.config.grid_connection
             purchase_costs == PurchaseCosts(self, price_data)
             sale_costs == SaleCosts(self, grid_config, price_data)
         IN  Built(Put(components, "grid_connection",
                 <<Source("grid_source",
                          [variable_costs |-> purchase_costs,
                           nominal_value |-> grid_config.max_purchase_mw]),
                   Sink("grid_sink",
                        [variable_costs |-> sale_costs,
                         nominal_value |-> grid_config.max_sale_mw])>>))
    ELSE Raised(components)

_has_resource(self, resource_type) ==
    Has(Get(self.config, "energy_resources", EmptyDict), resource_type)

_has_adjustable_loads(self) ==
    Cardinality(DOMAIN Get(self.config, "adjustable_loads", EmptyDict)) > 0

_adjust_renewable_data(self, data, resource_type) ==
    IF ~_has_resource(self, resource_type)
    THEN [t \in 1..Len(data) |-> 0]
    ELSE data

\* the next assembly step, skipped once a step has raised
Then(b, step(_)) == IF b.raised THEN b ELSE step(b.components)

\* the components of one entry of self.components as a list
ComponentList(components, key) ==
    IF key \in {"bus_electricity", "load_demand"}
    THEN <<components[key]>>
    ELSE components[key]

\* energy_system.nodes after energy_system.add(*all_components), by label
AllComponents(components) ==
    LET places == UNION {{<<k, i>> : i \in DOMAIN ComponentList(components, k)} :
                            k \in DOMAIN components}
        at(p) == ComponentList(components, p[1])[p[2]]
    IN  [l \in {at(p).label : p \in places} |->
            at(CHOOSE p \in places : at(p).label = l)]

\* create_energy_system: self afterwards, and whether the call raised
create_energy_system(self, load_data, pv_data, wind_data, price_data) ==
    LET pv_data_adjusted == _adjust_renewable_data(self, pv_data, "photovoltaic")
        wind_data_adjusted == _adjust_renewable_data(self, wind_data, "wind")
        b1 == _create_buses(self.components)
        b2 == Then(b1, LAMBDA c : _create_load_demand(c, load_data))
        b3 == IF \/ _has_resource(self, "photovoltaic")
                 \/ _has_resource(self, "wind")
              THEN Then(b2, LAMBDA c : _create_renewable_sources(
                                 self, c, pv_data_adjusted, wind_data_adjusted))
              ELSE b2
        b4 == IF _has_resource(self, "gas_turbine")
              THEN Then(b3, LAMBDA c : _create_conventional_generation(self, c))
              ELSE b3
        b5 == IF _has_resource(self, "battery_storage")
              THEN Then(b4, LAMBDA c :
                                _create_energy_storage_with_objective(self, c))
              ELSE b4
        b6 == IF _has_adjustable_loads(self)
              THEN Then(b5, LAMBDA c : _create_adjustable_loads(self, c))
              ELSE b5
        b7 == Then(b6, LAMBDA c : _create_grid_connection_with_objective(
                                      self, c, price_data))
    IN  [self |->
            [self EXCEPT
                !.components = b7.components,
                !.energy_system =
                    [nodes |-> IF b7.raised THEN EmptyDict
                               ELSE AllComponents(b7.components)]],
         raised |-> b7.raised]

\* VPPOptimizationModel.__init__ on a configuration (periods is
\* len(time_index))
VPPOptimizationModel(periods, cfg) ==
    [periods |-> periods,
     config |-> cfg,
     energy_system |-> NoObject,
     components |-> EmptyDict]

\* the base storage with 60% of the battery's power on its flows
EnergyStorageAtFloorPower(self, components) ==
    LET battery_config == self.config.energy_resources.battery_storage
    IN  IF HasAll(battery_config, BatteryKeys)
        THEN Built(Put(components, "energy_storage",
                 <<[kind |-> "GenericStorage",
                    label |-> "battery_storage",
                    bus |-> "bus_electricity",
                    inputs |->
                       [nominal_value |->
                            Mul(battery_config.power_capacity_mw, 600),
                        variable_costs |->
                            battery_config.charge_cost_yuan_mwh],
                    outputs |->
                       [nominal_value |->
                            Mul(battery_config.power_capacity_mw, 600),
                        variable_costs |->
                            battery_config.discharge_cost_yuan_mwh],
                    nominal_storage_capacity |->
                        battery_config.energy_capacity_mwh,
                    initial_storage_level |-> battery_config.initial_soc,
                    inflow_conversion_factor |->
                        battery_config.charge_efficiency,
                    outflow_conversion_factor |->
                        battery_config.discharge_efficiency,
                    loss_rate |-> battery_config.self_discharge_rate,
                    invest_relation_input_capacity |-> Ratio(1, 6),
                    invest_relation_output_capacity |-> Ratio(1, 6)]>>))
        ELSE Raised(components)

\* VPPOptimizationModel._create_energy_storage
_create_energy_storage(self, components) ==
    LET battery_config == self.config.energy_resources.battery_storage
    IN  IF HasAll(battery_config, BatteryKeys)
        THEN Built(Put(components, "energy_storage",
                 <<[kind |-> "GenericStorage",
                    label |-> "battery_storage",
                    bus |-> "bus_electricity",
                    inputs |->
                       [nominal_value |-> battery_config.power_capacity_mw,
                        variable_costs |->
                            battery_config.charge_cost_yuan_mwh],
                    outputs |->
                       [nominal_value |-> battery_config.power_capacity_mw,
                        variable_costs |->
                            battery_config.discharge_cost_yuan_mwh],
                    nominal_storage_capacity |->
                        battery_config.energy_capacity_mwh,
                    initial_storage_level |-> battery_config.initial_soc,
                    inflow_conversion_factor |->
                        battery_config.charge_efficiency,
                    outflow_conversion_factor |->
                        battery_config.discharge_efficiency,
                    loss_rate |-> battery_config.self_discharge_rate,
                    invest_relation_input_capacity |-> Ratio(1, 6),
                    invest_relation_output_capacity |-> Ratio(1, 6)]>>))
        ELSE Raised(components)

\* VPPOptimizationModel._create_grid_connection
_create_grid_connection(self, components, price_data) ==
    IF /\ Has(self.config, "grid_connection")
       /\ HasAll(self.config.grid_connection,
                 {"sale_price_ratio", "max_purchase_mw", "max_sale_mw"})
    THEN LET grid_config == self.config.grid_connection
         IN  Built(Put(components, "grid_connection",
                 <<Source("grid_source",
                          [variable_costs |-> price_data,
                           nominal_value |-> grid_config.max_purchase_mw]),
                   Sink("grid_sink",
                        [variable_costs |->
                             [t \in 1..Len(price_data) |->
                                 Mul(0 - price_data[t],
                                     grid_config.sale_price_ratio)],
                         nominal_value |-> grid_config.max_sale_mw])>>))
    ELSE Raised(components)

\* VPPOptimizationModel.create_energy_system: every builder is called
\* whatever the configuration holds
base_create_energy_system(self, load_data, pv_data, wind_data, price_data) ==
    LET er == Get(self.config, "energy_resources", EmptyDict)
        b1 == _create_buses(self.components)
        b2 == Then(b1, LAMBDA c : _create_load_demand(c, load_data))
        b3 == IF HasAll(er, {"photovoltaic", "wind"})
              THEN Then(b2, LAMBDA c : _create_renewable_sources(
                                           self, c, pv_data, wind_data))
              ELSE Raised(b2.components)
        b4 == IF Has(er, "gas_turbine")
              THEN Then(b3, LAMBDA c : _create_conventional_generation(self, c))
              ELSE Raised(b3.components)
        b5 == IF Has(er, "battery_storage")
              THEN Then(b4, LAMBDA c : _create_energy_storage(self, c))
              ELSE Raised(b4.components)
        b6 == Then(b5, LAMBDA c : _create_adjustable_loads(self, c))
        b7 == Then(b6, LAMBDA c : _create_grid_connection(self, c, price_data))
    IN  [self |->
            [self EXCEPT
                !.components = b7.components,
                !.energy_system =
                    [nodes |-> IF b7.raised THEN EmptyDict
                               ELSE AllComponents(b7.components)]],
         raised |-> b7.raised]

\* validate_system: the network exists, has a node and has the electricity bus
validate_system(self) ==
    /\ self.energy_system # NoObject
    /\ self.energy_system.nodes # EmptyDict
    /\ Has(self.energy_system.nodes, "bus_electricity")

\* first updated with second (dict.update)
Update(first, second) ==
    [k \in DOMAIN first \cup DOMAIN second |->
        IF k \in DOMAIN second THEN second[k] ELSE first[k]]

\* a summary that counts the nodes of a network that may not exist
SummaryOfAnyNetwork(self) ==
    LET nodes == IF self.energy_system = NoObject THEN EmptyDict
                 ELSE self.energy_system.nodes
    IN  [total_components |-> Cardinality(DOMAIN nodes),
         time_periods |-> self.periods,
         components_by_type |->
            [kind \in {nodes[l].kind : l \in DOMAIN nodes} |->
                Cardinality({l \in DOMAIN nodes : nodes[l].kind = kind})]]

\* get_system_summary (without the two time stamps)
get_system_summary(self) ==
    IF self.energy_system = NoObject
    THEN [error |-> "no energy system"]
    ELSE LET nodes == self.energy_system.nodes
         IN  [total_components |-> Cardinality(DOMAIN nodes),
              time_periods |-> self.periods,
              components_by_type |->
                 [kind \in {nodes[l].kind : l \in DOMAIN nodes} |->
                     Cardinality({l \in DOMAIN nodes : nodes[l].kind = kind})]]

\* _get_included_resources, as the set of its entries
_get_included_resources(self) ==
    DOMAIN Get(self.config, "energy_resources", EmptyDict)
    \cup {"adjustable_load_" \o load :
             load \in DOMAIN Get(self.config, "adjustable_loads", EmptyDict)}

\* get_mode_summary (the two objective descriptions are prose and left out)
get_mode_summary(self) ==
    Update(get_system_summary(self),
           [scheduling_mode |-> self.mode,
            optimization_objective |-> self.objective,
            mode_description |-> get_mode_description(self.mode),
            included_resources |-> _get_included_resources(self)])

-----------------------------------------------------------------------------
(* Inputs *)

\* the number of periods of the time index
Periods == 2

\* a series that is zero in every period
ZeroSeries == [t \in 1..Periods |-> 0]

\* a series that rises by step each period, its peak in the last one
RampSeries(step) == [t \in 1..Periods |-> t * Num(step)]

LoadSeries == {[t \in 1..Periods |-> Num(50)]}
PVSeries == {ZeroSeries, RampSeries(10)}
WindSeries == {ZeroSeries, RampSeries(5)}

\* the price alternates between 300 and 500, starting with either
PriceSeries ==
    {[t \in 1..Periods |-> IF t % 2 = k THEN Num(300) ELSE Num(500)] :
        k \in {0, 1}}

\* raw costs and prices handed to the coefficient transformation
FlowValues == {Num(80), Num(100)}

WeightTypes == {"ancillary", "grid_support", "default"}

-----------------------------------------------------------------------------
(* State machine *)

\* the record of a call: the method, its arguments, what it returned and
\* whether it raised
Call(op, args, ret, raised) ==
    [op |-> op, args |-> args, ret |-> ret, raised |-> raised]

\* VPPSchedulingManager.__init__ on a configuration file holding cfg
Init ==
    /\ config \in BaseConfigs
    /\ current_mode = None
    /\ current_objective = COST_MINIMIZATION
    /\ mode_configs = _initialize_mode_configs(config)
    /\ objective_configs = _initialize_objective_configs
    /\ model = NoObject
    /\ call = Call("__init__", EmptyDict, None, FALSE)
    /\ batch = NoObject
    /\ solver = NoObject

\* set_optimization_objective also writing the chosen objective's entry over
\* the table's COST_MINIMIZATION entry
SetObjectiveRewritingTable(objective) ==
    /\ current_objective' = objective
    /\ objective_configs' =
           [objective_configs EXCEPT
               ![COST_MINIMIZATION] = objective_configs[objective]]
    /\ call' = Call("set_optimization_objective",
                    [objective |-> objective], None, FALSE)
    /\ UNCHANGED <<batch, solver, config, mode_configs, current_mode, model>>

set_optimization_objective(objective) ==
    /\ current_objective' = objective
    /\ call' = Call("set_optimization_objective",
                    [objective |-> objective], None, FALSE)
    /\ UNCHANGED <<batch, solver, config, mode_configs, objective_configs, current_mode,
                   model>>

\* create_optimized_model defaulting to COST_MINIMIZATION whatever the
\* manager's current objective
CreateModelDefaultingToCostMin(mode, objective) ==
    LET obj == IF objective = None THEN COST_MINIMIZATION ELSE objective
    IN  /\ current_mode' = mode
        /\ current_objective' = obj
        /\ model' = OptimizedVPPModel(Periods, mode_configs[mode], mode,
                                      objective_configs[obj], obj)
        /\ call' = Call("create_optimized_model",
                        [mode |-> mode, objective |-> objective], None, FALSE)
        /\ UNCHANGED <<batch, solver, config, mode_configs, objective_configs>>

\* objective = None: the call passes no objective
create_optimized_model(mode, objective) ==
    LET obj == IF objective = None THEN current_objective ELSE objective
    IN  /\ current_mode' = mode
        /\ current_objective' = obj
        /\ model' = OptimizedVPPModel(Periods, mode_configs[mode], mode,
                                      objective_configs[obj], obj)
        /\ call' = Call("create_optimized_model",
                        [mode |-> mode, objective |-> objective], None, FALSE)
        /\ UNCHANGED <<batch, solver, config, mode_configs, objective_configs>>

\* model.create_energy_system(load_data, pv_data, wind_data, price_data)
CreateEnergySystem(load_data, pv_data, wind_data, price_data) ==
    /\ model # NoObject
    /\ LET r == create_energy_system(model, load_data, pv_data, wind_data,
                                     price_data)
       IN  /\ model' = r.self
           /\ call' = Call("create_energy_system",
                           [load_data |-> load_data, pv_data |-> pv_data,
                            wind_data |-> wind_data,
                            price_data |-> price_data],
                           None, r.raised)
    /\ UNCHANGED <<batch, solver, config, mode_configs, objective_configs, current_mode,
                   current_objective>>

\* model.create_energy_system called once more on the same model with the
\* series of the call before it; the call record notes the repetition
RepeatCreateEnergySystem ==
    /\ call.op = "create_energy_system"
    /\ LET r == create_energy_system(model, call.args.load_data,
                                     call.args.pv_data, call.args.wind_data,
                                     call.args.price_data)
       IN  /\ model' = r.self
           /\ call' = Call("create_energy_system",
                           Put(call.args, "repeated", TRUE), None, r.raised)
    /\ UNCHANGED <<batch, solver, config, mode_configs, objective_configs, current_mode,
                   current_objective>>

\* manager.get_mode_resources(mode)
GetModeResources(mode) ==
    /\ call' = Call("get_mode_resources", [mode |-> mode],
                    get_mode_resources(mode_configs[mode]), FALSE)
    /\ UNCHANGED <<batch, solver, config, mode_configs, objective_configs, current_mode,
                   current_objective, model>>

\* manager.get_mode_description(mode)
GetModeDescription(mode) ==
    /\ call' = Call("get_mode_description", [mode |-> mode],
                    get_mode_description(mode), FALSE)
    /\ UNCHANGED <<batch, solver, config, mode_configs, objective_configs, current_mode,
                   current_objective, model>>

\* how far the model has come, as the call records carry it: no call of
\* create_energy_system yet ("none"), or how the last one ended
Assembly ==
    IF call.op = "create_energy_system"
    THEN IF call.raised THEN "raised" ELSE "completed"
    ELSE IF Has(call.args, "assembly") THEN call.args.assembly
    ELSE "none"

\* model.validate_system()
ValidateSystem ==
    /\ model # NoObject
    /\ call' = Call("validate_system", [assembly |-> Assembly],
                    validate_system(model), FALSE)
    /\ UNCHANGED <<batch, solver, config, mode_configs, objective_configs,
                   current_mode, current_objective, model>>

\* model.get_system_summary()
GetSystemSummary ==
    /\ model # NoObject
    /\ call' = Call("get_system_summary", [assembly |-> Assembly],
                    get_system_summary(model), FALSE)
    /\ UNCHANGED <<batch, solver, config, mode_configs, objective_configs,
                   current_mode, current_objective, model>>

\* model.get_mode_summary()
GetModeSummary ==
    /\ model # NoObject
    /\ call' = Call("get_mode_summary", [assembly |-> Assembly],
                    get_mode_summary(model), FALSE)
    /\ UNCHANGED <<batch, solver, config, mode_configs, objective_configs,
                   current_mode, current_objective, model>>

\* model._apply_objective_config_to_flow(variable_cost, is_revenue)
ApplyObjectiveConfigToFlow(variable_cost, is_revenue) ==
    /\ model # NoObject
    /\ call' = Call("_apply_objective_config_to_flow",
                    [variable_cost |-> variable_cost,
                     is_revenue |-> is_revenue],
                    _apply_objective_config_to_flow(model, variable_cost,
                                                    is_revenue),
                    FALSE)
    /\ UNCHANGED <<batch, solver, config, mode_configs, objective_configs, current_mode,
                   current_objective, model>>

\* model._apply_objective_weights(variable_cost, weight_type), on a raw value
\* or on the value _apply_objective_config_to_flow has just returned
ApplyObjectiveWeights(weight_type) ==
    /\ model # NoObject
    /\ \E variable_cost \in
            FlowValues \cup
                (IF call.op = "_apply_objective_config_to_flow"
                 THEN {call.ret} ELSE {}) :
         call' = Call("_apply_objective_weights",
                      [variable_cost |-> variable_cost,
                       weight_type |-> weight_type,
                       chained |-> call.op = "_apply_objective_config_to_flow"
                                   /\ variable_cost = call.ret],
                      _apply_objective_weights(model, variable_cost,
                                               weight_type),
                      FALSE)
    /\ UNCHANGED <<batch, solver, config, mode_configs, objective_configs, current_mode,
                   current_objective, model>>

\* the manager and the assembly of networks
Next ==
    \/ \E objective \in OptimizationObjective :
         set_optimization_objective(objective)
    \/ \E mode \in SchedulingMode,
          objective \in OptimizationObjective \cup {None} :
         create_optimized_model(mode, objective)
    \/ \E load_data \in LoadSeries, pv_data \in PVSeries,
          wind_data \in WindSeries, price_data \in PriceSeries :
         CreateEnergySystem(load_data, pv_data, wind_data, price_data)

Spec == Init /\ [][Next]_vars

\* the manager's queries and the coefficient transformation of its models
NextQuery ==
    \/ \E objective \in OptimizationObjective :
         set_optimization_objective(objective)
    \/ \E mode \in SchedulingMode,
          objective \in OptimizationObjective \cup {None} :
         create_optimized_model(mode, objective)
    \/ \E mode \in SchedulingMode : GetModeResources(mode)
    \/ \E variable_cost \in FlowValues, is_revenue \in BOOLEAN :
         ApplyObjectiveConfigToFlow(variable_cost, is_revenue)
    \/ \E weight_type \in WeightTypes : ApplyObjectiveWeights(weight_type)

SpecQuery == Init /\ [][NextQuery]_vars

\* the catalogues a manager is followed on through every one of its calls:
\* a complete one, one without a battery, and the empty one of a failed load
FrameConfigs ==
    {BaseConfig(EnergyResourceKinds, TRUE, AdjustableLoadKinds, BothEnabled,
                50),
     BaseConfig({"photovoltaic", "wind", "gas_turbine"}, TRUE, {"chiller"},
                BothEnabled, 50),
     EmptyDict}

InitFrame == Init /\ config \in FrameConfigs

\* every call on the manager and the assembly of its models
NextFrame ==
    \/ \E objective \in OptimizationObjective :
         set_optimization_objective(objective)
    \/ \E mode \in SchedulingMode,
          objective \in OptimizationObjective \cup {None} :
         create_optimized_model(mode, objective)
    \/ \E mode \in SchedulingMode : GetModeResources(mode)
    \/ \E mode \in SchedulingMode : GetModeDescription(mode)
    \/ \E load_data \in LoadSeries, price_data \in PriceSeries :
         CreateEnergySystem(load_data, RampSeries(10), ZeroSeries, price_data)

SpecFrame == InitFrame /\ [][NextFrame]_vars

\* the manager and the assembly of networks, with repeated assemblies
NextRepeat ==
    \/ \E objective \in OptimizationObjective :
         set_optimization_objective(objective)
    \/ \E mode \in SchedulingMode,
          objective \in OptimizationObjective \cup {None} :
         create_optimized_model(mode, objective)
    \/ \E load_data \in LoadSeries, pv_data \in PVSeries,
          wind_data \in WindSeries, price_data \in PriceSeries :
         CreateEnergySystem(load_data, pv_data, wind_data, price_data)
    \/ RepeatCreateEnergySystem

SpecRepeat == InitFrame /\ [][NextRepeat]_vars

\* a model from its creation through its assembly, asked about itself at
\* every point
NextLifecycle ==
    \/ \E mode \in SchedulingMode,
          objective \in OptimizationObjective \cup {None} :
         create_optimized_model(mode, objective)
    \/ \E load_data \in LoadSeries, price_data \in PriceSeries :
         CreateEnergySystem(load_data, RampSeries(10), RampSeries(5),
                            price_data)
    \/ ValidateSystem
    \/ GetSystemSummary
    \/ GetModeSummary

SpecLifecycle == InitFrame /\ [][NextLifecycle]_vars

-----------------------------------------------------------------------------
(* main.py: the batch comparison of the scheduling modes *)

\* list_available_modes: the modes in the order of the enumeration
list_available_modes ==
    <<RENEWABLE_STORAGE, ADJUSTABLE_STORAGE, TRADITIONAL, NO_RENEWABLE,
      STORAGE_ONLY, FULL_SYSTEM>>

\* str(results.solver.termination_condition) of a solve that returned
TerminationConditions ==
    {"optimal", "feasible", "infeasible", "maxTimeLimit", "other"}

\* what one analysis meets outside the program: whether the CBC executable
\* is there, how solver.solve ends ("raise": with an exception) and whether
\* the analysis steps after a successful solve work; a field that is never
\* looked at has one value
RunEnvironments ==
    {e \in [available : BOOLEAN,
            solve : {"raise", "optimal", "feasible", "infeasible",
                     "maxTimeLimit"},
            analysis : BOOLEAN] :
        /\ ~e.available => e.solve = "raise"
        /\ e.solve \notin {"optimal", "feasible"} => e.analysis}

\* what an analysis hands back: a pair (success, summary) or a bare bool
ReturnPair(success) == [pair |-> TRUE, success |-> success]
ReturnBare(success) == [pair |-> FALSE, success |-> success]

\* the early "return False" of the two analyses: run_single_mode_analysis
\* returns the bare value, run_single_mode_analysis_with_objective the pair
EarlyReturn(with_objective) ==
    IF with_objective THEN ReturnPair(FALSE) ELSE ReturnBare(FALSE)

\* run_single_mode_analysis (with_objective = FALSE) and
\* run_single_mode_analysis_with_objective (with_objective = TRUE) from the
\* return of model.create_energy_system on (assembled: the model afterwards
\* and whether the call raised): the value returned
run_single_mode_analysis(with_objective, assembled, env) ==
    IF assembled.raised THEN ReturnPair(FALSE)
    ELSE IF ~validate_system(assembled.self) THEN EarlyReturn(with_objective)
    ELSE IF ~env.available THEN EarlyReturn(with_objective)
    ELSE IF env.solve = "raise" THEN EarlyReturn(with_objective)
    ELSE IF env.solve \notin {"optimal", "feasible"}
         THEN EarlyReturn(with_objective)
    ELSE IF ~env.analysis THEN ReturnPair(FALSE)
    ELSE ReturnPair(TRUE)

\* run_all_modes_comparison (objective = None) and
\* run_all_modes_comparison_with_objective, up to the loop
RunAllModesComparison(objective) ==
    /\ batch = NoObject
    /\ batch' = [fn |-> IF objective = None
                        THEN "run_all_modes_comparison"
                        ELSE "run_all_modes_comparison_with_objective",
                 objective |-> objective,
                 available_modes |-> list_available_modes,
                 i |-> 1,
                 attempted |-> <<>>,
                 results_summary |-> <<>>,
                 status |-> "running",
                 ret |-> FALSE]
    /\ call' = Call(batch'.fn, [objective |-> objective], None, FALSE)
    /\ UNCHANGED <<solver, config, mode_configs, objective_configs,
                   current_mode, current_objective, model>>

\* one turn of the loop: the analysis of available_modes[i] (a fresh manager,
\* its model created for the mode and, in the variant with an objective, for
\* the objective, the network assembled from the generated series, then the
\* solve) and the unpacking of what it returned; a bare bool cannot be
\* unpacked and the TypeError leaves the batch function
RunNextMode(env) ==
    /\ batch # NoObject
    /\ batch.status = "running"
    /\ batch.i <= Len(batch.available_modes)
    /\ LET mode == batch.available_modes[batch.i]
           with_objective == batch.objective # None
           obj == IF with_objective THEN batch.objective
                  ELSE COST_MINIMIZATION
           assembled ==
               create_energy_system(
                   OptimizedVPPModel(Periods, mode_configs[mode], mode,
                                     objective_configs[obj], obj),
                   [t \in 1..Periods |-> Num(50)], RampSeries(10),
                   RampSeries(5), [t \in 1..Periods |-> Num(300)])
           ret == run_single_mode_analysis(with_objective, assembled, env)
           tried == Append(batch.attempted,
                           [mode |-> mode, success |-> ret.success])
       IN  /\ batch' =
                IF ~ret.pair
                THEN [batch EXCEPT !.attempted = tried, !.status = "raised"]
                ELSE [batch EXCEPT
                        !.attempted = tried,
                        !.i = @ + 1,
                        !.results_summary =
                            IF ret.success THEN Append(@, mode) ELSE @]
           /\ current_mode' = mode
           /\ current_objective' = obj
           /\ model' = assembled.self
           /\ call' = Call(IF with_objective
                           THEN "run_single_mode_analysis_with_objective"
                           ELSE "run_single_mode_analysis",
                           [mode |-> mode], ret, ~ret.pair)
    /\ UNCHANGED <<solver, config, mode_configs, objective_configs>>

\* after the loop: the report over results_summary and the value returned
FinishAllModesComparison ==
    /\ batch # NoObject
    /\ batch.status = "running"
    /\ batch.i > Len(batch.available_modes)
    /\ batch' = [batch EXCEPT !.status = "returned",
                              !.ret = (batch.results_summary # <<>>)]
    /\ call' = Call(batch.fn, [objective |-> batch.objective], batch'.ret,
                    FALSE)
    /\ UNCHANGED <<solver, config, mode_configs, objective_configs,
                   current_mode, current_objective, model>>

\* the two batch comparisons over every environment of every analysis
NextBatch ==
    \/ \E objective \in OptimizationObjective \cup {None} :
         RunAllModesComparison(objective)
    \/ \E env \in RunEnvironments : RunNextMode(env)
    \/ FinishAllModesComparison

SpecBatch == InitFrame /\ [][NextBatch]_vars

-----------------------------------------------------------------------------
(* VPPDataGenerator *)

Min2(a, b) == IF a <= b THEN a ELSE b

\* min(values) of a non-empty sequence
SeqMin(seq) ==
    CHOOSE v \in {seq[i] : i \in DOMAIN seq} :
        \A i \in DOMAIN seq : v <= seq[i]

\* np.clip(value, lower, upper)
Clip(value, lower, upper) == Min2(Max2(value, lower), upper)

RECURSIVE Gcd(_, _)
Gcd(a, b) == IF b = 0 THEN a ELSE Gcd(b, a % b)

\* the cubic through the four points (0, y[1]), (1, y[2]), (2, y[3]),
\* (3, y[4]) at x = u / d
CubicThrough(y, u, d) ==
    (  (0 - y[1]) * ((u - d) * (u - 2 * d) * (u - 3 * d))
     + 3 * y[2] * (u * (u - 2 * d) * (u - 3 * d))
     - 3 * y[3] * (u * (u - d) * (u - 3 * d))
     + y[4] * (u * (u - d) * (u - 2 * d))) \div (6 * d * d * d)

\* _interpolate_pattern on a pattern of four entries: the pattern itself when
\* it has target_periods entries, else interp1d(kind='cubic') over
\* linspace(0, 1, 4) at linspace(0, 1, target_periods); on four points the
\* cubic spline is the one cubic through them
_interpolate_pattern(pattern, target_periods) ==
    IF Len(pattern) = target_periods
    THEN pattern
    ELSE LET g == Gcd(3, target_periods - 1)
             step == 3 \div g
             d == (target_periods - 1) \div g
         IN  [t \in 1..target_periods |->
                 CubicThrough(pattern, (t - 1) * step, d)]

\* generate_load_profile; noise: the draws of np.random.normal
generate_load_profile(self, noise) ==
    LET load_pattern ==
            _interpolate_pattern(self.config.load_profile.base_load_pattern,
                                 self.periods)
    IN  [t \in 1..self.periods |->
            Max2(Mul(load_pattern[t], Num(1) + noise[t]),
                 Mul(load_pattern[t], 500))]

\* generate_pv_profile; weather: the draws of np.random.normal
generate_pv_profile(self, weather) ==
    LET weather_config == self.config.renewable_patterns.weather_uncertainty
        pv_capacity == self.config.energy_resources.photovoltaic.capacity_mw
        pv_normalized ==
            _interpolate_pattern(self.config.renewable_patterns.pv_pattern,
                                 self.periods)
    IN  [t \in 1..self.periods |->
            Max2(Mul(Mul(pv_normalized[t], pv_capacity),
                     Clip(weather[t], weather_config.min, weather_config.max)),
                 0)]

\* generate_wind_profile; weibull: the draws of np.random.weibull
generate_wind_profile(self, weibull) ==
    LET wind_capacity == self.config.energy_resources.wind.capacity_mw
    IN  [t \in 1..self.periods |->
            Mul(Clip(Mul(weibull[t], 600), 0, Num(1)), wind_capacity)]

\* generate_electricity_prices; volatility: the draws of np.random.normal
generate_electricity_prices(self, volatility) ==
    LET price_pattern == self.config.electricity_prices.base_price_pattern
        prices == _interpolate_pattern(price_pattern, self.periods)
    IN  [t \in 1..self.periods |->
            Max2(Mul(prices[t], volatility[t]),
                 Mul(SeqMin(price_pattern), 500))]

\* generate_all_data
generate_all_data(self, draws) ==
    [load_data |-> generate_load_profile(self, draws.noise),
     pv_data |-> generate_pv_profile(self, draws.weather),
     wind_data |-> generate_wind_profile(self, draws.weibull),
     price_data |-> generate_electricity_prices(self, draws.volatility)]

\* VPPDataGenerator.__init__ on a configuration
VPPDataGenerator(cfg) ==
    [config |-> cfg,
     periods |-> cfg.time_settings.periods,
     time_index |-> 1..cfg.time_settings.periods]

\* the generator configurations: patterns of four entries, all non-negative
\* and the price patterns strictly positive, for four periods (the pattern
\* is used as it is) and for seven (it is interpolated)
GeneratorConfigs ==
    {[time_settings |-> [periods |-> periods],
      load_profile |-> [base_load_pattern |-> load_pattern],
      renewable_patterns |->
         [pv_pattern |-> pv_pattern,
          weather_uncertainty |->
             [mean |-> 900, std |-> 100, min |-> 300, max |-> Num(1)]],
      electricity_prices |-> [base_price_pattern |-> price_pattern],
      energy_resources |->
         [photovoltaic |-> [capacity_mw |-> Num(50)],
          wind |-> [capacity_mw |-> Num(30)]]] :
        periods \in {4, 7},
        load_pattern \in {<<Num(45), Num(42), Num(40), Num(38)>>,
                          <<0, 0, 0, Num(16)>>},
        pv_pattern \in {<<0, 350, 900, 100>>, <<0, 0, 0, Num(1)>>},
        price_pattern \in {<<Num(300), Num(280), Num(500), Num(320)>>,
                           <<Num(1), Num(1), Num(1), Num(500)>>}}

\* draws that alternate between two of the values
DrawVectors(values, periods) ==
    {[t \in 1..periods |-> IF t % 2 = 1 THEN pair[1] ELSE pair[2]] :
        pair \in values \X values}

\* the draws of one generate_all_data: normal draws far out on both sides,
\* Weibull draws from 0 upwards
RandomDraws(periods) ==
    [noise : DrawVectors({-2000, 20, 1500}, periods),
     weather : DrawVectors({-500, 900}, periods),
     weibull : DrawVectors({0, 2500}, periods),
     volatility : DrawVectors({-1000, 1050, 2500}, periods)]

\* VPPDataGenerator(cfg).generate_all_data()
GenerateAllData(cfg, draws) ==
    /\ call.op = "__init__"
    /\ call' = Call("generate_all_data", [config |-> cfg, draws |-> draws],
                    generate_all_data(VPPDataGenerator(cfg), draws), FALSE)
    /\ UNCHANGED <<batch, solver, config, mode_configs, objective_configs,
                   current_mode, current_objective, model>>

InitData == Init /\ config = EmptyDict

\* the generator on every configuration and every draw
NextData ==
    \E cfg \in GeneratorConfigs :
        \E draws \in RandomDraws(cfg.time_settings.periods) :
            GenerateAllData(cfg, draws)

SpecData == InitData /\ [][NextData]_vars

-----------------------------------------------------------------------------
(* OptimizationSolver: solve and its retry loop *)

\* the largest max_retries a solver is configured with
MaxRetries == 3

\* _get_default_solver_config, the entries the solve reads; ratioGap 0.01 and
\* timeLimit 300 in fixed point
_get_default_solver_config ==
    [solver |-> [name |-> "cbc"],
     cbc_options |-> [threads |-> 4, timeLimit |-> Num(300), ratioGap |-> 10],
     solving_strategy |-> [max_retries |-> 3, verify_solution |-> TRUE],
     debug |-> [verbose |-> FALSE]]

\* the solver configurations a solver_config.yaml may hold
SolverConfigs ==
    {[_get_default_solver_config EXCEPT
        !.solver.name = name, !.solving_strategy.max_retries = max_retries] :
        name \in {"cbc", "glpk"}, max_retries \in 0..MaxRetries}

\* str.lower on the termination conditions
Lower(text) == IF text = "maxTimeLimit" THEN "maxtimelimit" ELSE text

\* _prepare_solve_kwargs
_prepare_solve_kwargs(cfg) ==
    LET solve_kwargs == [tee |-> cfg.debug.verbose]
    IN  IF cfg.solver.name = "cbc"
        THEN Put(solve_kwargs, "options",
                 [threads |-> Get(cfg.cbc_options, "threads", 4),
                  ratioGap |-> Get(cfg.cbc_options, "ratioGap", 10),
                  timeLimit |-> Get(cfg.cbc_options, "timeLimit", Num(300))])
        ELSE solve_kwargs

\* _adjust_solve_parameters
_adjust_solve_parameters(solve_kwargs, attempt) ==
    IF Has(solve_kwargs, "options")
    THEN LET options == solve_kwargs.options
         IN  Put(solve_kwargs, "options",
                 IF attempt = 1
                 THEN [options EXCEPT !.ratioGap = @ * 2]
                 ELSE IF attempt = 2
                 THEN [options EXCEPT !.timeLimit = @ * 2,
                                      !.ratioGap = options.ratioGap * 5]
                 ELSE options)
    ELSE solve_kwargs

\* what one turn of the retry loop meets outside the program:
\*   direct:  the Pyomo call on the configured executable: "skipped" (no such
\*            file, or the solver not available), "raise", or the termination
\*            condition of its result;
\*   default: optimization_model.solve: raising because the solver is
\*            "unavailable", raising for another "error", or the termination
\*            condition it stores in solver_results;
\*   basic:   whether processing.results yields a non-empty result.
\* A field that is never looked at has one value.
AttemptEnvironments ==
    {e \in [direct : {"skipped", "raise", "optimal", "feasible", "infeasible",
                      "maxTimeLimit"},
            default : {"unavailable", "error"} \cup TerminationConditions,
            basic : BOOLEAN] :
        /\ e.direct \in {"optimal", "feasible"} =>
              e.default = "optimal" /\ e.basic
        /\ e.default \notin {"feasible", "infeasible"} => e.basic}

\* _basic_solution_check
_basic_solution_check(env) == env.basic

\* a status check that does not accept the termination condition "other"
CheckStatusRejectingOther(env) ==
    /\ env.default # "other"
    /\ \/ Lower(env.default) \in {"optimal", "maxtimelimit"}
       \/ _basic_solution_check(env)

\* _check_solve_status after optimization_model.solve has returned
_check_solve_status(env) ==
    LET success_conditions == {"optimal", "maxTimeLimit", "other"}
    IN  IF Lower(env.default) \in {Lower(cond) : cond \in success_conditions}
        THEN TRUE
        ELSE _basic_solution_check(env)

\* one turn of the loop of _attempt_solve: the value returned ({} when the
\* loop goes on), the parameters of the next turn and how the turn ended
AttemptTurn(cfg, solve_kwargs, attempt, env) ==
    LET max_retries == cfg.solving_strategy.max_retries
        direct_success ==
            /\ cfg.solver.name = "cbc"
            /\ env.direct \notin {"skipped", "raise"}
            /\ Lower(env.direct) \in {"optimal", "feasible"}
    IN  IF direct_success
        THEN [returns |-> {TRUE}, solve_kwargs |-> solve_kwargs,
              ended |-> "success"]
        ELSE IF env.default \in {"unavailable", "error"}
        THEN [returns |-> IF attempt < max_retries THEN {} ELSE {FALSE},
              solve_kwargs |-> solve_kwargs, ended |-> "exception"]
        ELSE IF _check_solve_status(env)
        THEN [returns |-> {TRUE}, solve_kwargs |-> solve_kwargs,
              ended |-> "success"]
        ELSE IF attempt < max_retries
        THEN [returns |-> {},
              solve_kwargs |-> _adjust_solve_parameters(solve_kwargs, attempt),
              ended |-> "status"]
        ELSE [returns |-> {FALSE}, solve_kwargs |-> solve_kwargs,
              ended |-> "status"]

\* OptimizationSolver.__init__ on a configuration (solves counts the calls
\* of solve)
OptimizationSolver(cfg) ==
    [config |-> cfg, results |-> NoObject, solve_stats |-> EmptyDict,
     solves |-> 0]

\* solve_stats of a solve that ended in its except branch
ErrorStats == [success |-> FALSE, error |-> "error"]

\* solve(energy_system) on self up to the retry loop; created = FALSE:
\* create_optimization_model raises and solve returns False from its except
EnterSolve(self, created) ==
    [config |-> self.config,
     results |-> self.results,
     solve_stats |-> IF created THEN self.solve_stats ELSE ErrorStats,
     solves |-> self.solves + 1,
     pc |-> IF created THEN "attempting" ELSE "returned",
     attempt |-> 0,
     attempts |-> 0,
     solve_kwargs |-> _prepare_solve_kwargs(self.config),
     previous |-> NoObject,
     last |-> NoObject,
     success |-> FALSE,
     ret |-> FALSE]

\* the first solve of a new OptimizationSolver
Solve(cfg, created) ==
    /\ solver = NoObject
    /\ solver' = EnterSolve(OptimizationSolver(cfg), created)
    /\ call' = Call("solve", EmptyDict, None, FALSE)
    /\ UNCHANGED <<batch, config, mode_configs, objective_configs,
                   current_mode, current_objective, model>>

\* the largest number of solve calls on one solver
MaxSolves == 2

\* a further solve on a solver whose last solve has returned
SolveAgain(created) ==
    /\ solver # NoObject
    /\ solver.pc = "returned"
    /\ solver.solves < MaxSolves
    /\ solver' = EnterSolve(solver, created)
    /\ call' = Call("solve", EmptyDict, None, FALSE)
    /\ UNCHANGED <<batch, config, mode_configs, objective_configs,
                   current_mode, current_objective, model>>

\* _attempt_solve: the turn of the loop with index solver.attempt (the Pyomo
\* call on the executable is made for cbc only)
AttemptSolve(env) ==
    /\ solver # NoObject
    /\ solver.pc = "attempting"
    /\ solver.config.solver.name # "cbc" => env.direct = "skipped"
    /\ LET max_retries == solver.config.solving_strategy.max_retries
           turn == AttemptTurn(solver.config, solver.solve_kwargs,
                               solver.attempt, env)
           over == turn.returns # {} \/ solver.attempt + 1 > max_retries
       IN  solver' = [solver EXCEPT
                        !.pc = IF over THEN "attempted" ELSE "attempting",
                        !.attempt = IF over THEN @ ELSE @ + 1,
                        !.attempts = @ + 1,
                        !.solve_kwargs = turn.solve_kwargs,
                        !.previous = solver.last,
                        !.last = [solve_kwargs |-> solver.solve_kwargs,
                                  env |-> env, ended |-> turn.ended],
                        !.success = (turn.returns = {TRUE})]
    /\ call' = Call("_attempt_solve", EmptyDict, None, FALSE)
    /\ UNCHANGED <<batch, config, mode_configs, objective_configs,
                   current_mode, current_objective, model>>

\* OptimizationSolver.solve after the retry loop; extracted = FALSE: the
\* extraction or verification of the results raises and solve returns False
ReturnFromSolve(extracted) ==
    /\ solver # NoObject
    /\ solver.pc = "attempted"
    /\ solver.success \/ extracted
    /\ solver' = [solver EXCEPT
                    !.pc = "returned",
                    !.ret = solver.success /\ extracted,
                    !.results = IF solver.success /\ extracted
                                THEN [solve |-> solver.solves]
                                ELSE @,
                    !.solve_stats =
                        IF extracted
                        THEN [success |-> solver.success,
                              solver_used |-> solver.config.solver.name]
                        ELSE ErrorStats]
    /\ call' = Call("solve", EmptyDict, solver'.ret, FALSE)
    /\ UNCHANGED <<batch, config, mode_configs, objective_configs,
                   current_mode, current_objective, model>>

InitSolve == Init /\ config = EmptyDict

\* a solve of every solver configuration in every environment
NextSolve ==
    \/ \E cfg \in SolverConfigs, created \in BOOLEAN : Solve(cfg, created)
    \/ \E env \in AttemptEnvironments : AttemptSolve(env)
    \/ \E extracted \in BOOLEAN : ReturnFromSolve(extracted)

SpecSolve == InitSolve /\ [][NextSolve]_vars

\* the solve goes on while it can: a turn of the loop ends, and solve returns
SpecSolveFair == SpecSolve /\ WF_vars(NextSolve)

\* get_results
get_results(self) == self.results

\* get_solve_statistics
get_solve_statistics(self) == self.solve_stats

\* several solves on one solver
NextSolveAgain ==
    \/ \E cfg \in SolverConfigs, created \in BOOLEAN : Solve(cfg, created)
    \/ \E env \in AttemptEnvironments : AttemptSolve(env)
    \/ \E extracted \in BOOLEAN : ReturnFromSolve(extracted)
    \/ \E created \in BOOLEAN : SolveAgain(created)

SpecSolveAgain == InitSolve /\ [][NextSolveAgain]_vars

-----------------------------------------------------------------------------
(* Reference tables of the claims *)

\* the resource inclusion policy of each mode (ancillary services apart)
PolicyTable(mode) ==
    CASE mode = RENEWABLE_STORAGE ->
           [photovoltaic |-> TRUE, wind |-> TRUE, gas_turbine |-> FALSE,
            battery_storage |-> TRUE, adjustable_loads |-> FALSE]
      [] mode = ADJUSTABLE_STORAGE ->
           [photovoltaic |-> FALSE, wind |-> FALSE, gas_turbine |-> FALSE,
            battery_storage |-> TRUE, adjustable_loads |-> TRUE]
      [] mode = TRADITIONAL ->
           [photovoltaic |-> TRUE, wind |-> TRUE, gas_turbine |-> TRUE,
            battery_storage |-> TRUE, adjustable_loads |-> TRUE]
      [] mode = NO_RENEWABLE ->
           [photovoltaic |-> FALSE, wind |-> FALSE, gas_turbine |-> TRUE,
            battery_storage |-> TRUE, adjustable_loads |-> TRUE]
      [] mode = STORAGE_ONLY ->
           [photovoltaic |-> FALSE, wind |-> FALSE, gas_turbine |-> FALSE,
            battery_storage |-> TRUE, adjustable_loads |-> FALSE]
      [] mode = FULL_SYSTEM ->
           [photovoltaic |-> TRUE, wind |-> TRUE, gas_turbine |-> TRUE,
            battery_storage |-> TRUE, adjustable_loads |-> TRUE]

\* the base configuration defines all four energy resources and a non-empty
\* adjustable_loads section
CompleteCatalogue ==
    /\ Has(config, "energy_resources")
    /\ EnergyResourceKinds \subseteq DOMAIN config.energy_resources
    /\ Has(config, "adjustable_loads")
    /\ DOMAIN config.adjustable_loads # {}

\* the base configuration enables the service on its battery
BaseEnables(service) ==
    /\ Has(config, "energy_resources")
    /\ Has(config.energy_resources, "battery_storage")
    /\ Has(config.energy_resources.battery_storage, "ancillary_services")
    /\ config.energy_resources.battery_storage
           .ancillary_services[service].enable

\* the sign table of the objectives, in thousandths
ExpectedCostSign(objective) ==
    CASE objective = COST_MINIMIZATION -> 1000
      [] objective = REVENUE_MAXIMIZATION -> -1000
      [] objective = PROFIT_MAXIMIZATION -> -1000
      [] objective = ANCILLARY_REVENUE_MAX -> -100
      [] objective = GRID_SUPPORT_OPTIMIZED -> -500

ExpectedRevenueSign(objective) ==
    IF objective = COST_MINIMIZATION THEN -1000 ELSE 1000

\* the weight of a kind an objective defines, in thousandths: none as {}
ExpectedWeight(objective, weight_type) ==
    IF objective = ANCILLARY_REVENUE_MAX /\ weight_type = "ancillary"
    THEN {2000}
    ELSE IF objective = GRID_SUPPORT_OPTIMIZED /\ weight_type = "grid_support"
         THEN {1500}
         ELSE {}

WeightKeys == {"ancillary_weight", "grid_support_weight", "min_profit_ratio"}

-----------------------------------------------------------------------------
(* C1 *)

\* C1: for a base configuration that defines photovoltaic, wind, gas_turbine,
\* battery_storage and a non-empty adjustable_loads section,
\* get_mode_resources(mode) returns the policy table for each of the six
\* modes, with ancillary_services false in every mode but FULL_SYSTEM, where
\* it is true exactly when the base configuration enables frequency
\* regulation or spinning reserve.
C1_ModeResourcesMatchPolicyTable ==
    (call.op = "get_mode_resources" /\ CompleteCatalogue) =>
        LET mode == call.args.mode
            expected == PolicyTable(mode)
        IN  /\ DOMAIN call.ret =
                   (DOMAIN expected) \cup {"ancillary_services"}
            /\ \A r \in DOMAIN expected : call.ret[r] = expected[r]
            /\ call.ret.ancillary_services =
                   (/\ mode = FULL_SYSTEM
                    /\ \/ BaseEnables("frequency_regulation")
                       \/ BaseEnables("spinning_reserve"))

\* get_mode_resources has answered for FULL_SYSTEM on a complete catalogue
\* with one service enabled, and reports ancillary services
C1_Witness ==
    /\ call.op = "get_mode_resources"
    /\ CompleteCatalogue
    /\ call.args.mode = FULL_SYSTEM
    /\ BaseEnables("spinning_reserve")
    /\ ~BaseEnables("frequency_regulation")
    /\ call.ret.ancillary_services

-----------------------------------------------------------------------------
(* C2 *)

\* C2: the objective table is total over the five objectives and holds
\* exactly: COST_MINIMIZATION cost sign +1, revenue sign -1;
\* REVENUE_MAXIMIZATION and PROFIT_MAXIMIZATION cost sign -1, revenue sign +1;
\* ANCILLARY_REVENUE_MAX cost sign -0.1, revenue sign +1, ancillary_weight
\* 2.0; GRID_SUPPORT_OPTIMIZED cost sign -0.5, revenue sign +1,
\* grid_support_weight 1.5 and min_profit_ratio 0.8; no objective defines any
\* other weight, and a model receives the entry of its objective.
C2_ObjectiveTableExact ==
    /\ DOMAIN objective_configs = OptimizationObjective
    /\ \A o \in OptimizationObjective :
         LET oc == objective_configs[o]
         IN  /\ oc.variable_costs_sign = ExpectedCostSign(o)
             /\ oc.revenue_sign = ExpectedRevenueSign(o)
             /\ (DOMAIN oc) \cap WeightKeys =
                    CASE o = ANCILLARY_REVENUE_MAX -> {"ancillary_weight"}
                      [] o = GRID_SUPPORT_OPTIMIZED ->
                           {"grid_support_weight", "min_profit_ratio"}
                      [] OTHER -> {}
             /\ o = ANCILLARY_REVENUE_MAX => oc.ancillary_weight = 2000
             /\ o = GRID_SUPPORT_OPTIMIZED =>
                    /\ oc.grid_support_weight = 1500
                    /\ oc.min_profit_ratio = 800
    /\ model # NoObject =>
         /\ model.objective_config.variable_costs_sign =
                ExpectedCostSign(model.objective)
         /\ model.objective_config.revenue_sign =
                ExpectedRevenueSign(model.objective)
         /\ \A w \in {"ancillary", "grid_support"} :
                Has(model.objective_config, w \o "_weight") =
                    (ExpectedWeight(model.objective, w) # {})

\* a model has been created for GRID_SUPPORT_OPTIMIZED and holds that
\* objective's entry of the table
C2_Witness ==
    /\ model # NoObject
    /\ model.objective = GRID_SUPPORT_OPTIMIZED
    /\ model.objective_config.min_profit_ratio = 800
    /\ model.objective_config.variable_costs_sign = -500

-----------------------------------------------------------------------------
(* C3 *)

\* C3: _apply_objective_config_to_flow(v) is v times the objective's cost
\* sign and, with is_revenue, v times its revenue sign;
\* _apply_objective_weights(v, kind) is v times the objective's weight of
\* that kind, or v when the objective defines none.  So a cost of 100 is 100
\* under COST_MINIMIZATION and -100 under REVENUE_MAXIMIZATION, and a revenue
\* of 80 weighted as ancillary is 160 under ANCILLARY_REVENUE_MAX.
C3_FlowTransformation ==
    /\ call.op = "_apply_objective_config_to_flow" =>
         LET v == call.args.variable_cost
             sign == IF call.args.is_revenue
                     THEN ExpectedRevenueSign(model.objective)
                     ELSE ExpectedCostSign(model.objective)
         IN  /\ call.ret * 1000 = v * sign
             /\ (v = 100000 /\ ~call.args.is_revenue
                     /\ model.objective = COST_MINIMIZATION)
                    => call.ret = 100000
             /\ (v = 100000 /\ ~call.args.is_revenue
                     /\ model.objective = REVENUE_MAXIMIZATION)
                    => call.ret = -100000
    /\ call.op = "_apply_objective_weights" =>
         LET v == call.args.variable_cost
             w == ExpectedWeight(model.objective, call.args.weight_type)
         IN  /\ w = {} => call.ret = v
             /\ \A x \in w : call.ret * 1000 = v * x
             /\ (v = 80000 /\ call.args.weight_type = "ancillary"
                     /\ model.objective = ANCILLARY_REVENUE_MAX)
                    => call.ret = 160000

\* under ANCILLARY_REVENUE_MAX a revenue of 80 has been transformed and the
\* result weighted as ancillary, giving 160
C3_Witness ==
    /\ call.op = "_apply_objective_weights"
    /\ model.objective = ANCILLARY_REVENUE_MAX
    /\ call.args.chained
    /\ call.args.variable_cost = 80000
    /\ call.args.weight_type = "ancillary"
    /\ call.ret = 160000

-----------------------------------------------------------------------------
(* The assembled network, as the claims read it *)

\* the model's last create_energy_system returned a network
NetworkBuilt ==
    /\ model # NoObject
    /\ model.energy_system # NoObject
    /\ model.energy_system.nodes # EmptyDict

\* the last call was a create_energy_system that returned normally
JustAssembled == call.op = "create_energy_system" /\ ~call.raised

Nodes == model.energy_system.nodes

\* the battery section of the configuration the model assembles from
ModelBattery ==
    Get(Get(model.config, "energy_resources", EmptyDict),
        "battery_storage", EmptyDict)

\* one service section of that battery ({} when there is none)
ModelService(service) ==
    Get(Get(ModelBattery, "ancillary_services", EmptyDict), service, EmptyDict)

ModelEnables(service) ==
    Has(ModelService(service), "enable") /\ ModelService(service).enable

ServiceKeys == {"frequency_regulation", "spinning_reserve"}

ServicePrefix(service) ==
    IF service = "frequency_regulation" THEN "freq_reg" ELSE "spin_reserve"

ServiceLabels ==
    {"freq_reg_up_service", "freq_reg_down_service",
     "spin_reserve_up_service", "spin_reserve_down_service"}

\* how many components of the energy_storage list carry the label
StorageCount(label) ==
    Cardinality({i \in DOMAIN model.components.energy_storage :
                    model.components.energy_storage[i].label = label})

-----------------------------------------------------------------------------
(* C4 *)

\* C4: for every objective and every mode that includes PV and wind, the
\* variable cost of pv_source and wind_source is the configured unit cost
\* times the objective's cost sign, with profile series/max(series) and
\* nominal capacity max(series) when the series has a positive peak.
C4_RenewableCostsSigned ==
    (/\ JustAssembled
     /\ _has_resource(model, "photovoltaic")
     /\ _has_resource(model, "wind")) =>
        \A r \in {<<"pv_source", "photovoltaic", call.args.pv_data>>,
                  <<"wind_source", "wind", call.args.wind_data>>} :
            LET flow == Nodes[r[1]].outputs
                unit_cost ==
                    model.config.energy_resources[r[2]].variable_cost_yuan_mwh
                series == r[3]
            IN  /\ flow.variable_costs * 1000 =
                       unit_cost * ExpectedCostSign(model.objective)
                /\ SeqMax(series) > 0 =>
                       /\ flow.nominal_value = SeqMax(series)
                       /\ \A t \in 1..Periods :
                              /\ flow.fix[t].num = series[t]
                              /\ flow.fix[t].den = SeqMax(series)

-----------------------------------------------------------------------------
(* C5 *)

\* C5: for every objective, the variable cost of the gas_turbine source and
\* of the chiller_load and heat_pump_load sinks is the configured unit cost
\* times the objective's cost sign; the gas turbine flow carries the
\* configured minimum output ratio as its lower bound, and each adjustable
\* load is bounded by its configured minimum and maximum ratio.
C5_ConventionalAndLoadCostsSigned ==
    JustAssembled =>
        /\ _has_resource(model, "gas_turbine") =>
             LET flow == Nodes["gas_turbine"].outputs
                 gas_config == model.config.energy_resources.gas_turbine
             IN  /\ flow.variable_costs * 1000 =
                        gas_config.variable_cost_yuan_mwh
                            * ExpectedCostSign(model.objective)
                 /\ flow.min = gas_config.min_output_ratio
                 /\ flow.nominal_value = gas_config.capacity_mw
        /\ \A load \in DOMAIN Get(model.config, "adjustable_loads", EmptyDict) :
             LET flow == Nodes[load \o "_load"].inputs
                 load_config == model.config.adjustable_loads[load]
             IN  /\ flow.variable_costs * 1000 =
                        load_config.operating_cost_yuan_mwh
                            * ExpectedCostSign(model.objective)
                 /\ flow.min = load_config.min_power_ratio
                 /\ flow.max = load_config.max_power_ratio
                 /\ flow.nominal_value = load_config.rated_power_mw

-----------------------------------------------------------------------------
(* C6 *)

\* the capacity a service reserves from: its configured capacity when the
\* model's configuration enables it, nothing otherwise
ReservingCapacity(service) ==
    IF ModelEnables(service) THEN ModelService(service).max_capacity_mw ELSE 0

\* C6: with nominal power N, frequency regulation enabled at capacity F and
\* spinning reserve enabled at capacity S, the nominal value of both the
\* charge and the discharge flow of battery_storage is
\* max(N - 0.5*F - 0.3*S, 0.6*N); a service that is not enabled reduces
\* nothing, so with none enabled both flows are bounded by N; N = 50, F = 20,
\* S = 15 gives 35.5.
C6_BatteryPowerReservation ==
    (/\ NetworkBuilt
     /\ "battery_storage" \in DOMAIN Nodes
     /\ \A s \in ServiceKeys :
            ModelEnables(s) => Has(ModelService(s), "max_capacity_mw")) =>
        LET N == ModelBattery.power_capacity_mw
            F == ReservingCapacity("frequency_regulation")
            S == ReservingCapacity("spinning_reserve")
            battery == Nodes["battery_storage"]
        IN  /\ battery.inputs.nominal_value = battery.outputs.nominal_value
            /\ 10 * battery.inputs.nominal_value =
                   Max2(10 * N - 5 * F - 3 * S, 6 * N)
            /\ (\A s \in ServiceKeys : ~ModelEnables(s)) =>
                   battery.inputs.nominal_value = N
            /\ (N = 50000 /\ F = 20000 /\ S = 15000) =>
                   battery.outputs.nominal_value = 35500

\* a battery of 50 MW with frequency regulation enabled at 20 MW and
\* spinning reserve at 15 MW has been assembled with 35.5 MW on both flows
C6_Witness ==
    /\ NetworkBuilt
    /\ "battery_storage" \in DOMAIN Nodes
    /\ ModelEnables("frequency_regulation")
    /\ ModelEnables("spinning_reserve")
    /\ ModelBattery.power_capacity_mw = 50000
    /\ ReservingCapacity("frequency_regulation") = 20000
    /\ ReservingCapacity("spinning_reserve") = 15000
    /\ Nodes["battery_storage"].inputs.nominal_value = 35500
    /\ Nodes["battery_storage"].outputs.nominal_value = 35500

-----------------------------------------------------------------------------
(* C7 *)

\* C7: when a service is enabled on the battery the network holds exactly one
\* up-service sink and one down-service source for it, each bounded by the
\* configured maximum capacity, whose variable cost is the configured up or
\* down price times the objective's revenue sign, and times the ancillary
\* weight if and only if the objective is ANCILLARY_REVENUE_MAX; when the
\* service is not enabled neither node exists.
C7_ServiceNodes ==
    NetworkBuilt =>
        \A s \in ServiceKeys :
            LET up == ServicePrefix(s) \o "_up_service"
                down == ServicePrefix(s) \o "_down_service"
                sec == ModelService(s)
                weight == IF model.objective = ANCILLARY_REVENUE_MAX
                          THEN 2000 ELSE 1000
                \* a thousand times the signed and weighted price
                signed(price) ==
                    ((price * ExpectedRevenueSign(model.objective)) \div 1000)
                        * weight
            IN  IF ModelEnables(s) /\ _has_resource(model, "battery_storage")
                THEN /\ {up, down} \subseteq DOMAIN Nodes
                     /\ StorageCount(up) = 1
                     /\ StorageCount(down) = 1
                     /\ Nodes[up].kind = "Sink"
                     /\ Nodes[down].kind = "Source"
                     /\ Has(sec, "max_capacity_mw") =>
                            /\ Nodes[up].inputs.nominal_value =
                                   sec.max_capacity_mw
                            /\ Nodes[down].outputs.nominal_value =
                                   sec.max_capacity_mw
                     /\ Has(sec, "up_price_yuan_mw") =>
                            Nodes[up].inputs.variable_costs * 1000 =
                                signed(sec.up_price_yuan_mw)
                     /\ Has(sec, "down_price_yuan_mw") =>
                            Nodes[down].outputs.variable_costs * 1000 =
                                signed(sec.down_price_yuan_mw)
                ELSE {up, down} \cap DOMAIN Nodes = {}

\* under ANCILLARY_REVENUE_MAX a network has been assembled with frequency
\* regulation enabled and priced and spinning reserve disabled: the up price
\* of 90 enters doubled, and no spinning reserve node exists
C7_Witness ==
    /\ NetworkBuilt
    /\ model.objective = ANCILLARY_REVENUE_MAX
    /\ ModelEnables("frequency_regulation")
    /\ ~ModelEnables("spinning_reserve")
    /\ Has(ModelService("frequency_regulation"), "up_price_yuan_mw")
    /\ Nodes["freq_reg_up_service"].inputs.variable_costs = 180000
    /\ Nodes["freq_reg_down_service"].outputs.nominal_value = 20000
    /\ "spin_reserve_up_service" \notin DOMAIN Nodes

-----------------------------------------------------------------------------
(* C8 *)

\* C8: for every mode and every objective, the network built by
\* create_energy_system holds a grid_source bounded by max_purchase_mw and a
\* grid_sink bounded by max_sale_mw; for every period t the grid_source cost
\* is price[t] times the objective's cost sign and the grid_sink cost is
\* price[t] times sale_price_ratio times the objective's revenue sign, and
\* each coefficient array has exactly one entry per period.
C8_GridConnection ==
    JustAssembled =>
        /\ {"grid_source", "grid_sink"} \subseteq DOMAIN Nodes
        /\ LET grid_config == model.config.grid_connection
               price == call.args.price_data
               purchase == Nodes["grid_source"].outputs
               sale == Nodes["grid_sink"].inputs
           IN  /\ Nodes["grid_source"].kind = "Source"
               /\ Nodes["grid_sink"].kind = "Sink"
               /\ purchase.nominal_value = grid_config.max_purchase_mw
               /\ sale.nominal_value = grid_config.max_sale_mw
               /\ DOMAIN purchase.variable_costs = 1..model.periods
               /\ DOMAIN sale.variable_costs = 1..model.periods
               /\ \A t \in 1..model.periods :
                      /\ purchase.variable_costs[t] * 1000 =
                             price[t] * ExpectedCostSign(model.objective)
                      /\ sale.variable_costs[t] * 1000 =
                             ((price[t] * grid_config.sale_price_ratio)
                                  \div 1000)
                                 * ExpectedRevenueSign(model.objective)

\* a network has been assembled under PROFIT_MAXIMIZATION for a mode without
\* renewables on the price series 500, 300: purchases enter at -500 and -300,
\* sales at the ratio 0.95 at 475 and 285
C8_Witness ==
    /\ JustAssembled
    /\ model.objective = PROFIT_MAXIMIZATION
    /\ model.mode = NO_RENEWABLE
    /\ call.args.price_data[1] = 500000
    /\ model.config.grid_connection.sale_price_ratio = 950
    /\ Nodes["grid_source"].outputs.variable_costs[1] = -500000
    /\ Nodes["grid_source"].outputs.variable_costs[2] = -300000
    /\ Nodes["grid_sink"].inputs.variable_costs[1] = 475000
    /\ Nodes["grid_sink"].inputs.variable_costs[2] = 285000

-----------------------------------------------------------------------------
(* C9 *)

\* the enable flag the base configuration gives one service of its battery
BaseEnable(service) ==
    LET battery == Get(Get(config, "energy_resources", EmptyDict),
                       "battery_storage", EmptyDict)
        section == Get(Get(battery, "ancillary_services", EmptyDict),
                       service, EmptyDict)
    IN  Has(section, "enable") /\ section.enable

\* C9: for every mode other than FULL_SYSTEM and every base configuration,
\* whatever the enable flags of the two services in the base configuration,
\* the derived mode configuration has both services disabled:
\* get_mode_resources reports ancillary_services false, and the network
\* assembled for that mode holds no freq_reg or spin_reserve service node and
\* reserves no battery capacity.
C9_RestrictedModesDisableServices ==
    /\ \A mode \in SchedulingMode \ {FULL_SYSTEM} :
           LET battery == Get(Get(mode_configs[mode], "energy_resources",
                                  EmptyDict),
                              "battery_storage", EmptyDict)
               services == Get(battery, "ancillary_services", EmptyDict)
           IN  /\ \A s \in DOMAIN services :
                      Has(services[s], "enable") => ~services[s].enable
               /\ ~get_mode_resources(mode_configs[mode]).ancillary_services
    /\ (NetworkBuilt /\ model.mode # FULL_SYSTEM) =>
           /\ ServiceLabels \cap DOMAIN Nodes = {}
           /\ "battery_storage" \in DOMAIN Nodes =>
                  /\ Nodes["battery_storage"].inputs.nominal_value =
                         ModelBattery.power_capacity_mw
                  /\ Nodes["battery_storage"].outputs.nominal_value =
                         ModelBattery.power_capacity_mw

\* the base configuration enables both services, and a TRADITIONAL network
\* has been assembled from it with the battery at its full 50 MW
C9_Witness ==
    /\ BaseEnable("frequency_regulation")
    /\ BaseEnable("spinning_reserve")
    /\ NetworkBuilt
    /\ model.mode = TRADITIONAL
    /\ "battery_storage" \in DOMAIN Nodes
    /\ Nodes["battery_storage"].inputs.nominal_value = 50000
    /\ ~get_mode_resources(mode_configs[TRADITIONAL]).ancillary_services

-----------------------------------------------------------------------------
(* C10 *)

\* the last call was create_optimized_model without an objective
CreatedWithoutObjective ==
    call.op = "create_optimized_model" /\ call.args.objective = None

-----------------------------------------------------------------------------
(* C12 *)

\* the capacities and efficiencies the network takes from the section of
\* one energy resource
StructuralKeys(resource) ==
    CASE resource = "gas_turbine" -> {"capacity_mw"}
      [] resource = "battery_storage" ->
            {"power_capacity_mw", "energy_capacity_mwh", "charge_efficiency",
             "discharge_efficiency"}
      [] OTHER -> {}

\* a capacity or an efficiency of a resource the model's configuration
\* includes is missing from it
MissingStructural ==
    LET er == Get(model.config, "energy_resources", EmptyDict)
        loads == Get(model.config, "adjustable_loads", EmptyDict)
    IN  \/ \E r \in DOMAIN er : ~(StructuralKeys(r) \subseteq DOMAIN er[r])
        \/ /\ Has(er, "battery_storage")
           /\ \E s \in ServiceKeys :
                  ModelEnables(s) /\ ~Has(ModelService(s), "max_capacity_mw")
        \/ \E l \in DOMAIN loads : ~Has(loads[l], "rated_power_mw")

\* C12: whenever a structural parameter (a capacity or an efficiency) of a
\* resource included by the current mode is missing from the resolved
\* configuration, create_energy_system fails with an error and returns no
\* network; it never substitutes a default value for a missing structural
\* parameter.
C12_MissingStructuralFails ==
    (call.op = "create_energy_system" /\ MissingStructural) =>
        /\ call.raised
        /\ ~NetworkBuilt

-----------------------------------------------------------------------------
(* C13 *)

\* the network create_energy_system builds from the series of args on a
\* model the manager has only just created for the mode and the objective
AssembledAfresh(mode, objective, periods, args) ==
    create_energy_system(
        OptimizedVPPModel(periods, mode_configs[mode], mode,
                          objective_configs[objective], objective),
        args.load_data, args.pv_data, args.wind_data, args.price_data)

\* C13: assembling a network twice from the same (mode, objective, time
\* index, load, PV, wind, price) input, whether on the same model, on two
\* models from the same manager, or with other (mode, objective) assemblies
\* in between, yields the same node labels, flow bounds and per-period cost
\* coefficients: every assembly gives the network of a first assembly on a
\* new model, and a repeated call leaves the network as it was.
C13_AssemblyIdempotent ==
    [][call'.op = "create_energy_system" =>
          LET afresh == AssembledAfresh(model'.mode, model'.objective,
                                        model'.periods, call'.args)
          IN  /\ call'.raised = afresh.raised
              /\ model'.energy_system = afresh.self.energy_system
              /\ DOMAIN model'.energy_system.nodes =
                     DOMAIN afresh.self.energy_system.nodes
              /\ Has(call'.args, "repeated") =>
                     /\ model'.energy_system = model.energy_system
                     /\ call'.raised = call.raised]_vars

\* a FULL_SYSTEM network with renewable sources has been assembled a second
\* time on the same model from the same series
C13_Witness ==
    /\ JustAssembled
    /\ Has(call.args, "repeated")
    /\ model.mode = FULL_SYSTEM
    /\ {"pv_source", "battery_storage", "grid_sink"} \subseteq DOMAIN Nodes
    /\ Nodes["grid_source"].outputs.variable_costs[1] =
           Mul(call.args.price_data[1],
               model.objective_config.variable_costs_sign)

-----------------------------------------------------------------------------
(* C14 *)

\* C14: after the manager is initialized, no sequence of get_mode_resources,
\* get_mode_description, set_optimization_objective, create_optimized_model
\* and create_energy_system calls changes the manager's base configuration,
\* any entry of mode_configs or any entry of objective_configs; deriving one
\* mode's configuration never alters the base configuration or another
\* mode's configuration: FULL_SYSTEM keeps the base as loaded and every other
\* entry is the derivation of that same base.
C14_TablesNeverChange ==
    [][/\ config' = config
       /\ \A mode \in SchedulingMode : mode_configs'[mode] = mode_configs[mode]
       /\ \A objective \in OptimizationObjective :
              objective_configs'[objective] = objective_configs[objective]
       /\ objective_configs'[COST_MINIMIZATION].variable_costs_sign = 1000
       /\ mode_configs'[FULL_SYSTEM] = config'
       /\ mode_configs' = _initialize_mode_configs(config')
       /\ model' # NoObject =>
              model'.config = mode_configs'[model'.mode]]_vars

\* on a base that enables both services, a TRADITIONAL network has been
\* assembled, the objective has been set to another one since, and a
\* description has just been asked for: the base still enables both services
\* while the TRADITIONAL entry has them disabled
C14_Witness ==
    /\ call.op = "get_mode_description"
    /\ NetworkBuilt
    /\ model.mode = TRADITIONAL
    /\ model.objective = REVENUE_MAXIMIZATION
    /\ current_objective = GRID_SUPPORT_OPTIMIZED
    /\ BaseEnable("frequency_regulation")
    /\ BaseEnable("spinning_reserve")
    /\ ~get_mode_resources(mode_configs[TRADITIONAL]).ancillary_services
    /\ get_mode_resources(mode_configs[FULL_SYSTEM]).ancillary_services

-----------------------------------------------------------------------------
(* C15 *)

\* C15: in every mode that includes PV and wind, if the PV (respectively
\* wind) series is all-zero, the assembled network still holds pv_source
\* (respectively wind_source), with nominal capacity 1 and a fixed profile of
\* zero in every one of the P periods; the source is never omitted and no
\* profile entry is a division by a zero peak.
C15_ZeroSeriesSource ==
    (/\ JustAssembled
     /\ _has_resource(model, "photovoltaic")
     /\ _has_resource(model, "wind")) =>
        \A r \in {<<"pv_source", call.args.pv_data>>,
                  <<"wind_source", call.args.wind_data>>} :
            /\ r[1] \in DOMAIN Nodes
            /\ Nodes[r[1]].kind = "Source"
            /\ \A t \in DOMAIN Nodes[r[1]].outputs.fix :
                   Nodes[r[1]].outputs.fix[t].den # 0
            /\ (\A t \in DOMAIN r[2] : r[2][t] = 0) =>
                   /\ Nodes[r[1]].outputs.nominal_value = 1000
                   /\ DOMAIN Nodes[r[1]].outputs.fix = 1..model.periods
                   /\ \A t \in 1..model.periods :
                          Nodes[r[1]].outputs.fix[t].num = 0

\* a RENEWABLE_STORAGE network has been assembled from an all-zero PV series
\* and a wind series with a peak of 10: pv_source has capacity 1, wind_source
\* capacity 10
C15_Witness ==
    /\ JustAssembled
    /\ model.mode = RENEWABLE_STORAGE
    /\ \A t \in 1..Periods : call.args.pv_data[t] = 0
    /\ call.args.wind_data[Periods] > 0
    /\ Nodes["pv_source"].outputs.nominal_value = 1000
    /\ Nodes["pv_source"].outputs.fix[1].num = 0
    /\ Nodes["wind_source"].outputs.nominal_value = call.args.wind_data[Periods]

-----------------------------------------------------------------------------
(* C11: a batch comparison outlives the failure of any of its modes *)

\* the modes of the attempts that succeeded, in the order of the attempts
Succeeded(attempted) ==
    LET ok(a) == a.success
        kept == SelectSeq(attempted, ok)
    IN  [k \in 1..Len(kept) |-> kept[k].mode]

\* C11: in both batch comparisons no failure of a mode (assembly, validation,
\* solver availability, solve) leaves the batch function with an exception;
\* the attempts are the modes of the enumeration in its order, each once; the
\* function returns after all of them, and its summary holds exactly the
\* modes that succeeded.
C11_BatchOutlivesFailures ==
    batch # NoObject =>
        /\ batch.status # "raised"
        /\ [k \in 1..Len(batch.attempted) |-> batch.attempted[k].mode]
              = SubSeq(list_available_modes, 1, Len(batch.attempted))
        /\ batch.results_summary = Succeeded(batch.attempted)
        /\ batch.status = "returned" =>
              Len(batch.attempted) = Len(list_available_modes)

\* C11 restricted to run_all_modes_comparison_with_objective, where it holds
C11_WithObjectiveOutlivesFailures ==
    (batch # NoObject /\ batch.objective # None) => C11_BatchOutlivesFailures

-----------------------------------------------------------------------------
(* C16: the retry loop of the solver is bounded and ends *)

\* the retry loop is running
Attempting == solver # NoObject /\ solver.pc = "attempting"

\* the retry loop has been left
Attempted == solver # NoObject /\ solver.pc # "attempting" /\ solver.attempts > 0

\* an attempt in environment env of a solver configured with cfg succeeds:
\* the Pyomo call on the executable ends optimal or feasible, or the default
\* solve returns and the status check accepts it
AttemptSucceeds(cfg, env) ==
    \/ cfg.solver.name = "cbc" /\ env.direct \in {"optimal", "feasible"}
    \/ /\ env.default \notin {"unavailable", "error"}
       /\ \/ env.default \in {"optimal", "maxTimeLimit", "other"}
          \/ env.basic

\* the safety half of C16
C16_Bounded ==
    (solver # NoObject /\ solver.attempts > 0) =>
        LET max_retries == solver.config.solving_strategy.max_retries
            succeeded == AttemptSucceeds(solver.config, solver.last.env)
        IN  /\ solver.attempts <= max_retries + 1
            /\ succeeded => solver.pc # "attempting" /\ solver.success
            /\ (~succeeded /\ solver.attempts = max_retries + 1) =>
                  solver.pc # "attempting" /\ ~solver.success
            /\ (~succeeded /\ solver.attempts < max_retries + 1) =>
                  solver.pc = "attempting"

\* C16: _attempt_solve always terminates; it makes at most max_retries + 1
\* attempts, returns True as soon as one attempt succeeds (no attempt follows
\* it) and returns False once max_retries + 1 attempts have failed, not
\* before.
C16_AttemptSolveTerminates ==
    /\ []C16_Bounded
    /\ Attempting ~> Attempted

\* a solver with the largest max_retries has failed in every one of its
\* max_retries + 1 attempts and _attempt_solve has returned False
C16_Witness ==
    /\ Attempted
    /\ solver.config.solving_strategy.max_retries = MaxRetries
    /\ solver.attempts = MaxRetries + 1
    /\ ~solver.success

-----------------------------------------------------------------------------
(* C17: a retry runs with relaxed parameters *)

\* the attempt just made is a retry of a solver that passes CBC options
Retried ==
    /\ solver # NoObject
    /\ solver.attempts >= 2
    /\ Has(solver.last.solve_kwargs, "options")

\* C17: every retry runs with parameters relaxed against those of the attempt
\* before it: ratioGap strictly larger or timeLimit strictly longer, and
\* neither smaller, whether the attempt before failed by its status or by an
\* exception.
C17_RetryRelaxed ==
    Retried =>
        LET before == solver.previous.solve_kwargs.options
            now == solver.last.solve_kwargs.options
        IN  /\ now.ratioGap >= before.ratioGap
            /\ now.timeLimit >= before.timeLimit
            /\ now.ratioGap > before.ratioGap \/ now.timeLimit > before.timeLimit

\* what does hold of every retry: no parameter is tightened
C17_RetryNeverTightened ==
    Retried =>
        LET before == solver.previous.solve_kwargs.options
            now == solver.last.solve_kwargs.options
        IN  /\ now.ratioGap >= before.ratioGap
            /\ now.timeLimit >= before.timeLimit
            /\ now.threads = before.threads

-----------------------------------------------------------------------------
(* C18: an infeasible problem is not retried *)

\* the attempt just made went through the default solve, which returned with
\* termination condition tc
DefaultSolveEnded(tc) ==
    /\ solver # NoObject
    /\ solver.attempts > 0
    /\ solver.last.ended # "exception"
    /\ ~(/\ solver.config.solver.name = "cbc"
         /\ solver.last.env.direct \in {"optimal", "feasible"})
    /\ solver.last.env.default = tc

\* C18: when an attempt ends with the termination condition infeasible, no
\* further attempt is made and the solve is reported as failed.
C18_InfeasibleNotRetried ==
    DefaultSolveEnded("infeasible") =>
        /\ solver.pc # "attempting"
        /\ ~solver.success
        /\ solver.pc = "returned" => ~solver.ret

-----------------------------------------------------------------------------
(* C19: an unavailable solver is not retried *)

\* C19: when the solve call raises because the solver is unavailable,
\* OptimizationSolver.solve reports failure after that single attempt; the
\* failure is never retried.
C19_UnavailableNotRetried ==
    (/\ solver # NoObject
     /\ solver.attempts > 0
     /\ solver.last.env.direct = "skipped"
     /\ solver.last.env.default = "unavailable") =>
        /\ solver.attempts = 1
        /\ solver.pc # "attempting"
        /\ ~solver.success
        /\ solver.pc = "returned" => ~solver.ret

\* what does hold: a solve whose every attempt raises reports failure
C19_UnavailableReportedFailed ==
    (/\ solver # NoObject
     /\ solver.pc = "returned"
     /\ solver.attempts > 0
     /\ solver.last.ended = "exception") => ~solver.ret

-----------------------------------------------------------------------------
(* C20: a termination neither optimal nor infeasible is not a success *)

\* C20: an attempt whose termination condition is neither optimal nor
\* infeasible (maxTimeLimit, other) is not reported as a success: it is
\* retried while retries remain, and the solve fails when they are used up.
C20_InconclusiveNotSuccess ==
    \A tc \in {"maxTimeLimit", "other"} :
        DefaultSolveEnded(tc) =>
            LET max_retries == solver.config.solving_strategy.max_retries
            IN  /\ ~solver.success
                /\ solver.attempts < max_retries + 1 =>
                      solver.pc = "attempting"
                /\ solver.attempts = max_retries + 1 =>
                      solver.pc # "attempting"
                /\ solver.pc = "returned" => ~solver.ret

-----------------------------------------------------------------------------
(* C21: the battery carries state-of-charge bounds *)

\* the value a GenericStorage has for a keyword the builder may pass; an
\* absent keyword leaves the component's own default (no lower bound, the
\* whole capacity as upper bound)
StorageLevel(node, key) ==
    Get(node, key, IF key = "min_storage_level" THEN 0 ELSE Num(1))

\* C21: the battery_storage node of a STORAGE_ONLY network has a minimum
\* storage level of 0.2 and a maximum storage level of 0.9 of its nominal
\* storage capacity.
C21_StateOfChargeBounds ==
    (/\ NetworkBuilt
     /\ model.mode = STORAGE_ONLY
     /\ "battery_storage" \in DOMAIN Nodes) =>
        /\ StorageLevel(Nodes["battery_storage"], "min_storage_level") = 200
        /\ StorageLevel(Nodes["battery_storage"], "max_storage_level") = 900

-----------------------------------------------------------------------------
(* C22: the shape of the assembled network *)

\* the places of self.components: one per component the assembler holds
ComponentPlaces ==
    UNION {{<<k, i>> : i \in DOMAIN ComponentList(model.components, k)} :
              k \in DOMAIN model.components}

\* the labels a network of the model's mode consists of, from what
\* get_mode_resources reports for the mode
ExpectedLabels ==
    LET resources == get_mode_resources(mode_configs[model.mode])
        loads == Get(mode_configs[model.mode], "adjustable_loads", EmptyDict)
    IN  {"bus_electricity", "load_demand", "grid_source", "grid_sink"}
        \cup (IF resources.photovoltaic THEN {"pv_source"} ELSE {})
        \cup (IF resources.wind THEN {"wind_source"} ELSE {})
        \cup (IF resources.gas_turbine THEN {"gas_turbine"} ELSE {})
        \cup (IF resources.battery_storage THEN {"battery_storage"} ELSE {})
        \cup (IF resources.adjustable_loads
              THEN {k \o "_load" : k \in DOMAIN loads}
              ELSE {})
        \cup (IF resources.ancillary_services
              THEN UNION {{ServicePrefix(s) \o "_up_service",
                           ServicePrefix(s) \o "_down_service"} :
                             s \in {x \in ServiceKeys : ModelEnables(x)}}
              ELSE {})

\* C22: from a complete base configuration, for every mode and objective,
\* create_energy_system returns a network with exactly one bus, exactly one
\* storage node, pairwise distinct labels and every flow keyed by that bus;
\* its labels are bus_electricity, load_demand, grid_source, grid_sink, plus
\* pv_source, wind_source, gas_turbine, battery_storage and the adjustable
\* loads exactly when the mode includes them, plus the up and down node of
\* each enabled service exactly when get_mode_resources reports
\* ancillary_services.
C22_NetworkShape ==
    (CompleteCatalogue /\ call.op = "create_energy_system") =>
        /\ ~call.raised
        /\ DOMAIN Nodes = ExpectedLabels
        /\ Cardinality(ComponentPlaces) = Cardinality(DOMAIN Nodes)
        /\ {l \in DOMAIN Nodes : Nodes[l].kind = "Bus"} = {"bus_electricity"}
        /\ Cardinality({l \in DOMAIN Nodes :
                           Nodes[l].kind = "GenericStorage"}) = 1
        /\ \A l \in DOMAIN Nodes :
              Nodes[l].kind # "Bus" =>
                  /\ Nodes[l].bus \in DOMAIN Nodes
                  /\ Nodes[Nodes[l].bus].kind = "Bus"

\* a FULL_SYSTEM network with both services enabled has been assembled: all
\* fourteen nodes are there
C22_Witness ==
    /\ CompleteCatalogue
    /\ JustAssembled
    /\ model.mode = FULL_SYSTEM
    /\ ServiceLabels \subseteq DOMAIN Nodes
    /\ Cardinality(DOMAIN Nodes) = 14

-----------------------------------------------------------------------------
(* C23: a model goes from not built to built *)

\* C23: for every mode, on a model obtained from create_optimized_model,
\* validate_system returns False and get_system_summary returns an error
\* record while create_energy_system has not been called; once
\* create_energy_system has returned, validate_system returns True and
\* get_mode_summary reports the mode's value as scheduling_mode and a
\* positive total_components.
C23_NotBuiltToBuilt ==
    /\ call.op = "validate_system" =>
          /\ call.args.assembly = "none" => call.ret = FALSE
          /\ call.args.assembly = "completed" => call.ret = TRUE
    /\ (call.op = "get_system_summary" /\ call.args.assembly = "none") =>
          DOMAIN call.ret = {"error"}
    /\ (call.op = "get_mode_summary" /\ call.args.assembly = "completed") =>
          /\ call.ret.scheduling_mode = current_mode
          /\ Has(call.ret, "total_components")
          /\ call.ret.total_components > 0

\* a STORAGE_ONLY model has been assembled, has then validated as True and
\* has then been asked for its mode summary
C23_Witness ==
    /\ call.op = "get_mode_summary"
    /\ call.args.assembly = "completed"
    /\ current_mode = STORAGE_ONLY
    /\ validate_system(model)
    /\ call.ret.scheduling_mode = STORAGE_ONLY
    /\ call.ret.total_components >= 5

\* a model just created has been asked whether it validates: it does not
C23_WitnessNotBuilt ==
    /\ call.op = "validate_system"
    /\ call.args.assembly = "none"
    /\ call.ret = FALSE

-----------------------------------------------------------------------------
(* C24: the generated series *)

\* the four series have one entry per period of the generator
C24_SeriesAligned ==
    call.op = "generate_all_data" =>
        \A name \in DOMAIN call.ret :
            DOMAIN call.ret[name] = 1..call.args.config.time_settings.periods

\* C24: generate_all_data returns a load, a PV, a wind and a price series of
\* exactly periods entries each; for any draws of the noise, and base
\* patterns that are non-negative (the price pattern strictly positive),
\* every load, PV and wind value is non-negative and every price is strictly
\* positive.
C24_SeriesSigns ==
    call.op = "generate_all_data" =>
        /\ C24_SeriesAligned
        /\ \A t \in 1..call.args.config.time_settings.periods :
              /\ call.ret.load_data[t] >= 0
              /\ call.ret.pv_data[t] >= 0
              /\ call.ret.wind_data[t] >= 0
              /\ call.ret.price_data[t] > 0

\* what does hold: when the patterns have as many entries as there are
\* periods, and so are not interpolated, C24 holds
C24_SeriesSignsUninterpolated ==
    (/\ call.op = "generate_all_data"
     /\ call.args.config.time_settings.periods = 4) => C24_SeriesSigns

\* what does hold whatever the number of periods: PV and wind are
\* non-negative and the price is strictly positive
C24_AllButLoad ==
    call.op = "generate_all_data" =>
        /\ C24_SeriesAligned
        /\ \A t \in 1..call.args.config.time_settings.periods :
              /\ call.ret.pv_data[t] >= 0
              /\ call.ret.wind_data[t] >= 0
              /\ call.ret.price_data[t] > 0

-----------------------------------------------------------------------------
(* C25: the reservation and the service flows use one capacity *)

\* the capacity that bounds the flows of a service of the assembled network,
\* nothing when the service is not enabled
FlowCapacity(service) ==
    IF ModelEnables(service)
    THEN Nodes[ServicePrefix(service) \o "_up_service"].inputs.nominal_value
    ELSE 0

\* C25: whenever a service is enabled on the battery, its up and its down
\* flow are bounded by the same capacity and the battery's power is reduced
\* by 0.5 times that capacity for frequency regulation and 0.3 times it for
\* spinning reserve (down to the floor of 0.6 of the nominal power), also
\* when the service's configuration has no max_capacity_mw.
C25_ReservationMatchesFlows ==
    (NetworkBuilt /\ "battery_storage" \in DOMAIN Nodes) =>
        LET N == ModelBattery.power_capacity_mw
            F == FlowCapacity("frequency_regulation")
            S == FlowCapacity("spinning_reserve")
        IN  /\ \A s \in {x \in ServiceKeys : ModelEnables(x)} :
                  Nodes[ServicePrefix(s) \o "_down_service"]
                      .outputs.nominal_value = FlowCapacity(s)
            /\ 10 * Nodes["battery_storage"].inputs.nominal_value =
                  Max2(10 * N - 5 * F - 3 * S, 6 * N)

\* what does hold: C25 for services whose configuration states its
\* max_capacity_mw
C25_ReservationMatchesStatedCapacity ==
    (\A s \in ServiceKeys :
        (NetworkBuilt /\ ModelEnables(s)) =>
            Has(ModelService(s), "max_capacity_mw")) =>
        C25_ReservationMatchesFlows

-----------------------------------------------------------------------------
(* C26: the battery's power is not committed twice *)

\* the share of the battery's power an enabled service reserves
Reserved(service, share) ==
    IF ModelEnables(service)
    THEN Mul(Get(ModelService(service), "max_capacity_mw", 0), share)
    ELSE 0

\* C26: for every nominal power N >= 0 and enabled service capacities F and
\* S, the battery's capacity available for arbitrage plus the reserved
\* amounts 0.5*F and 0.3*S never exceeds N, and the available capacity lies
\* between 0.6*N and N.
C26_PowerNotOvercommitted ==
    (NetworkBuilt /\ "battery_storage" \in DOMAIN Nodes) =>
        LET N == ModelBattery.power_capacity_mw
            available == Nodes["battery_storage"].inputs.nominal_value
        IN  /\ available + Reserved("frequency_regulation", 500)
                         + Reserved("spinning_reserve", 300) <= N
            /\ Mul(N, 600) <= available
            /\ available <= N

\* what does hold: the available capacity lies between 0.6*N and N
C26_AvailableWithinBand ==
    (NetworkBuilt /\ "battery_storage" \in DOMAIN Nodes) =>
        LET N == ModelBattery.power_capacity_mw
            available == Nodes["battery_storage"].inputs.nominal_value
        IN  Mul(N, 600) <= available /\ available <= N

-----------------------------------------------------------------------------
(* C27: a failed solve leaves no results behind *)

\* the last solve on the solver has returned False
SolveFailed == solver # NoObject /\ solver.pc = "returned" /\ ~solver.ret

\* C27: for any sequence of solve calls on one solver, after a solve has
\* returned False get_results() returns None and get_solve_statistics()
\* reports success false; the results of an earlier successful solve are
\* never returned once a later solve has failed.
C27_NoStaleResults ==
    SolveFailed =>
        /\ get_results(solver) = NoObject
        /\ Has(get_solve_statistics(solver), "success")
        /\ ~get_solve_statistics(solver).success

\* what does hold: the statistics of a failed solve report success false,
\* and results handed out after a successful solve are those of that solve
C27_StatisticsFollowLastSolve ==
    (solver # NoObject /\ solver.pc = "returned") =>
        /\ Has(get_solve_statistics(solver), "success")
        /\ get_solve_statistics(solver).success = solver.ret
        /\ solver.ret => get_results(solver) = [solve |-> solver.solves]

-----------------------------------------------------------------------------
(* C28: the TRADITIONAL cost-minimising network is the base model's *)

\* the network the base model assembles from cfg and the series of the last
\* create_energy_system call
BaseAssembly(cfg) ==
    base_create_energy_system(
        VPPOptimizationModel(model.periods, cfg),
        call.args.load_data, call.args.pv_data, call.args.wind_data,
        call.args.price_data)

\* C28: under COST_MINIMIZATION in TRADITIONAL mode with a complete
\* configuration, the network OptimizedVPPModel.create_energy_system builds
\* equals the one the base VPPOptimizationModel.create_energy_system builds
\* from the same configuration and series with the ancillary services
\* disabled: the same node labels, the same flow bounds (the battery at its
\* full nominal power) and the same cost coefficients, the grid purchase at
\* price[t] and the grid sale at -price[t] * sale_price_ratio.
C28_TraditionalEqualsBase ==
    (/\ JustAssembled
     /\ CompleteCatalogue
     /\ model.mode = TRADITIONAL
     /\ model.objective = COST_MINIMIZATION) =>
        /\ ~BaseAssembly(model.config).raised
        /\ BaseAssembly(model.config).self.energy_system.nodes = Nodes
        /\ BaseAssembly(config).self.energy_system.nodes = Nodes
        /\ Nodes["battery_storage"].inputs.nominal_value =
               config.energy_resources.battery_storage.power_capacity_mw
        /\ \A t \in 1..Len(call.args.price_data) :
               /\ Nodes["grid_source"].outputs.variable_costs[t] =
                      call.args.price_data[t]
               /\ Nodes["grid_sink"].inputs.variable_costs[t] =
                      0 - Mul(call.args.price_data[t],
                              config.grid_connection.sale_price_ratio)

\* a TRADITIONAL cost-minimising network assembled from a complete
\* configuration that enables both services, with a sunny PV series and the
\* first price at 300
C28_Witness ==
    /\ JustAssembled
    /\ CompleteCatalogue
    /\ BaseEnable("frequency_regulation")
    /\ BaseEnable("spinning_reserve")
    /\ model.mode = TRADITIONAL
    /\ model.objective = COST_MINIMIZATION
    /\ call.args.pv_data = RampSeries(10)
    /\ Nodes["grid_sink"].inputs.variable_costs[1] = 0 - 285000
    /\ Nodes["battery_storage"].outputs.nominal_value = 50000
    /\ {"chiller_load", "gas_turbine", "wind_source"} \subseteq DOMAIN Nodes

-----------------------------------------------------------------------------
(* C29: a derived mode configuration holds no resource the base lacks *)

\* the base configuration defines the resource kind
BaseDefines(kind) ==
    IF kind = "adjustable_loads"
    THEN DOMAIN Get(config, "adjustable_loads", EmptyDict) # {}
    ELSE IF kind = "ancillary_services"
         THEN BaseEnable("frequency_regulation")
              \/ BaseEnable("spinning_reserve")
         ELSE Has(Get(config, "energy_resources", EmptyDict), kind)

\* the resource kinds a mode reports no more than the base defines
ReportsOnlyBaseResources(mode, kinds) ==
    \A kind \in kinds :
        get_mode_resources(mode_configs[mode])[kind] => BaseDefines(kind)

\* C29: for every mode and every base configuration, get_mode_resources
\* reports a resource kind as included, and OptimizedVPPModel._has_resource
\* treats it as present, only if the base configuration defines that kind:
\* deriving a mode configuration never introduces a resource the base lacks.
C29_NoResourceIntroduced ==
    /\ \A mode \in SchedulingMode :
           ReportsOnlyBaseResources(
               mode, EnergyResourceKinds
                         \cup {"adjustable_loads", "ancillary_services"})
    /\ model # NoObject =>
           \A kind \in EnergyResourceKinds :
               _has_resource(model, kind) => BaseDefines(kind)

\* what does hold: TRADITIONAL, NO_RENEWABLE and FULL_SYSTEM report only what
\* the base defines, and no mode introduces a gas turbine, adjustable loads
\* or ancillary services
C29_DerivationsThatOnlyRemove ==
    /\ \A mode \in {TRADITIONAL, NO_RENEWABLE, FULL_SYSTEM} :
           ReportsOnlyBaseResources(
               mode, EnergyResourceKinds
                         \cup {"adjustable_loads", "ancillary_services"})
    /\ \A mode \in SchedulingMode :
           ReportsOnlyBaseResources(
               mode, {"gas_turbine", "adjustable_loads", "ancillary_services"})

-----------------------------------------------------------------------------
(* ResultAnalyzer: time series and derived metrics *)

\* sub in text, on strings
Contains(text, sub) ==
    \E i \in 1..(Len(text) - Len(sub) + 1) :
        SubSeq(text, i, i + Len(sub) - 1) = sub

\* the sum of a list of numbers
RECURSIVE SumList(_)
SumList(s) == IF s = <<>> THEN 0 ELSE Head(s) + SumList(Tail(s))

\* results_df[cols].sum(axis=1): a name listed twice in cols selects its
\* column twice
RowSum(results_df, cols, periods) ==
    [t \in 1..periods |->
        SumList([i \in 1..Len(cols) |-> results_df[cols[i]][t]])]

\* the column the first sequence of a node is stored in
FirstColumnOf ==
    [load_demand |-> "load_demand_mw",
     pv_source |-> "pv_generation_mw",
     wind_source |-> "wind_generation_mw",
     gas_turbine |-> "gas_generation_mw",
     grid_source |-> "grid_purchase_mw",
     grid_sink |-> "grid_sale_mw",
     chiller_load |-> "chiller_load_mw",
     heat_pump_load |-> "heat_pump_load_mw",
     freq_reg_up_service |-> "freq_reg_up_mw",
     freq_reg_down_service |-> "freq_reg_down_mw",
     spin_reserve_up_service |-> "spin_reserve_up_mw",
     spin_reserve_down_service |-> "spin_reserve_down_mw"]

\* results_df.columns in the order _extract_time_series_results adds them
ColumnOrder ==
    <<"load_demand_mw", "pv_generation_mw", "wind_generation_mw",
      "gas_generation_mw", "battery_charge_mw", "battery_discharge_mw",
      "battery_net_mw", "battery_soc", "grid_purchase_mw", "grid_sale_mw",
      "chiller_load_mw", "heat_pump_load_mw", "freq_reg_up_mw",
      "freq_reg_down_mw", "spin_reserve_up_mw", "spin_reserve_down_mw">>

\* _calculate_derived_metrics (no column holds a missing value here, so the
\* filling of missing values changes nothing)
_calculate_derived_metrics(results_df, periods) ==
    LET zero == [t \in 1..periods |-> 0]
        generation_cols ==
            SelectSeq(ColumnOrder,
                      LAMBDA col : Has(results_df, col)
                                   /\ Contains(col, "generation"))
        d1 == Put(results_df, "total_renewable_mw",
                  IF generation_cols # <<>>
                  THEN RowSum(results_df, generation_cols, periods)
                  ELSE zero)
        grid_net ==
            IF Has(d1, "grid_purchase_mw") /\ Has(d1, "grid_sale_mw")
            THEN [t \in 1..periods |->
                     d1.grid_purchase_mw[t] - d1.grid_sale_mw[t]]
            ELSE IF Has(d1, "grid_purchase_mw")
                 THEN d1.grid_purchase_mw
                 ELSE IF Has(d1, "grid_sale_mw")
                      THEN [t \in 1..periods |-> 0 - d1.grid_sale_mw[t]]
                      ELSE zero
        d2 == Put(d1, "grid_net_mw", grid_net)
        supply_cols ==
            generation_cols
                \o <<"gas_generation_mw", "battery_net_mw", "grid_net_mw">>
        available_supply_cols ==
            SelectSeq(supply_cols, LAMBDA col : Has(d2, col))
        d3 == Put(d2, "total_supply_mw",
                  IF available_supply_cols # <<>>
                  THEN RowSum(d2, available_supply_cols, periods)
                  ELSE zero)
    IN  Put(d3, "power_balance_mw",
            IF Has(d3, "load_demand_mw")
            THEN [t \in 1..periods |->
                     d3.total_supply_mw[t] - d3.load_demand_mw[t]]
            ELSE d3.total_supply_mw)

\* _extract_time_series_results: sequences[label] is the list of columns of
\* views.node(results, node)['sequences'], one series per column; for the
\* battery the code reads column 0 as the charge, column 1 as the discharge
\* and column 2 as the storage content
_extract_time_series_results(sequences, periods) ==
    LET present(label) == Has(sequences, label) /\ sequences[label] # <<>>
        labels == {label \in DOMAIN FirstColumnOf : present(label)}
        single ==
            [col \in {FirstColumnOf[label] : label \in labels} |->
                sequences[CHOOSE label \in labels :
                              FirstColumnOf[label] = col][1]]
        battery == IF present("battery_storage")
                   THEN sequences.battery_storage
                   ELSE <<>>
        flows ==
            IF Len(battery) >= 2
            THEN [battery_charge_mw |->
                     [t \in 1..periods |-> 0 - battery[1][t]],
                  battery_discharge_mw |-> battery[2],
                  battery_net_mw |->
                     [t \in 1..periods |-> battery[2][t] - battery[1][t]]]
            ELSE EmptyDict
        content == IF Len(battery) >= 3
                   THEN [battery_soc |-> battery[3]]
                   ELSE EmptyDict
    IN  _calculate_derived_metrics(Update(Update(single, flows), content),
                                   periods)

\* the nodes of the network of a mode, assembled under cost minimisation
\* from the complete catalogue with both services enabled
NetworkOf(mode) ==
    LET cfg == BaseConfig(EnergyResourceKinds, TRUE, AdjustableLoadKinds,
                          BothEnabled, 50)
    IN  create_energy_system(
            OptimizedVPPModel(Periods, _initialize_mode_configs(cfg)[mode],
                              mode, ObjectiveConfig(COST_MINIMIZATION),
                              COST_MINIMIZATION),
            [t \in 1..Periods |-> Num(50)], RampSeries(10), RampSeries(5),
            [t \in 1..Periods |-> Num(300)]).self.energy_system.nodes

\* the labels of the nodes that feed the bus and of those that draw from it
IntoBus(nodes) ==
    {l \in DOMAIN nodes : nodes[l].kind \in {"Source", "GenericStorage"}}
OutOfBus(nodes) ==
    {l \in DOMAIN nodes : nodes[l].kind \in {"Sink", "GenericStorage"}}

\* Flow results of a solved network in MW: every node of into feeds t * 10
\* in period t and every node of outof draws as much, the load draws
\* t * load, and the grid makes up the difference, so that the bus balances
\* in every period.
BalancedSequences(nodes, into, outof, load) ==
    LET fed(t) == t * 10 * Cardinality(into)
        drawn(t) == t * load + t * 10 * Cardinality(outof)
        flow(l, side) == [t \in 1..Periods |-> IF l \in side THEN t * 10 ELSE 0]
    IN  [l \in DOMAIN nodes \ {"bus_electricity"} |->
            CASE l = "load_demand" -> <<[t \in 1..Periods |-> t * load]>>
              [] l = "grid_source" ->
                    <<[t \in 1..Periods |-> Max2(drawn(t) - fed(t), 0)]>>
              [] l = "grid_sink" ->
                    <<[t \in 1..Periods |-> Max2(fed(t) - drawn(t), 0)]>>
              [] l = "battery_storage" ->
                    <<flow(l, outof), flow(l, into),
                      [t \in 1..Periods |-> 100]>>
              [] OTHER ->
                    <<flow(l, IF nodes[l].kind = "Source" THEN into
                              ELSE outof)>>]

\* analyze_results up to the time series (results_df), on an analyzer that
\* has analysed nothing yet
AnalyzeResults(mode, into, outof, load) ==
    LET nodes == NetworkOf(mode)
        sequences == BalancedSequences(nodes, into, outof, load)
    IN  /\ call.op = "__init__"
        /\ call' = Call("analyze_results",
                        [mode |-> mode, sequences |-> sequences],
                        _extract_time_series_results(sequences, Periods),
                        FALSE)
        /\ UNCHANGED <<batch, solver, config, mode_configs, objective_configs,
                       current_mode, current_objective, model>>

\* ResultAnalyzer.__init__; no manager configuration is involved
InitAnalysis == Init /\ config = EmptyDict

\* the flows of a network that are free to run or to rest: those of load and
\* grid follow from them
FreeInto(mode) == IntoBus(NetworkOf(mode)) \ {"grid_source"}
FreeOutOf(mode) == OutOfBus(NetworkOf(mode)) \ {"grid_sink", "load_demand"}

NextAnalysis ==
    \E mode \in SchedulingMode :
        \E into \in SUBSET FreeInto(mode), outof \in SUBSET FreeOutOf(mode),
           load \in {20, 50} :
            AnalyzeResults(mode, into, outof, load)

SpecAnalysis == InitAnalysis /\ [][NextAnalysis]_vars

-----------------------------------------------------------------------------
(* C30: the power balance of balanced flow results *)

\* the series of a column of the analysed results, zero when absent
Column(name) ==
    IF Has(call.ret, name) THEN call.ret[name]
    ELSE [t \in 1..Periods |-> 0]

Analysed == call.op = "analyze_results"

\* C30: for flow results in which the bus balances in every period, the
\* analyzer reports power_balance_mw equal to zero in every period in every
\* mode: total_supply_mw counts each supplying flow (PV, wind, gas, net
\* battery, net grid) exactly once and nets out every non-load withdrawal,
\* and total_renewable_mw equals PV plus wind generation only.
C30_BalancedFlowsBalance ==
    Analysed =>
        \A t \in 1..Periods :
            /\ Column("power_balance_mw")[t] = 0
            /\ Column("total_renewable_mw")[t] =
                   Column("pv_generation_mw")[t]
                   + Column("wind_generation_mw")[t]

\* what does hold: the reported balance is off by the gas generation counted
\* a second time and by the withdrawals and service flows left out, and the
\* renewable total is PV plus wind plus gas
C30_BalanceOffByGasAndWithdrawals ==
    Analysed =>
        \A t \in 1..Periods :
            /\ Column("power_balance_mw")[t] =
                   Column("gas_generation_mw")[t]
                   + Column("chiller_load_mw")[t]
                   + Column("heat_pump_load_mw")[t]
                   + Column("freq_reg_up_mw")[t]
                   + Column("spin_reserve_up_mw")[t]
                   - Column("freq_reg_down_mw")[t]
                   - Column("spin_reserve_down_mw")[t]
            /\ Column("total_renewable_mw")[t] =
                   Column("pv_generation_mw")[t]
                   + Column("wind_generation_mw")[t]
                   + Column("gas_generation_mw")[t]

\* in the modes without gas turbine, adjustable loads and services the
\* reported balance is zero
C30_BalancedWithoutGasAndLoads ==
    (Analysed /\ call.args.mode \in {RENEWABLE_STORAGE, STORAGE_ONLY}) =>
        \A t \in 1..Periods :
            /\ Column("power_balance_mw")[t] = 0
            /\ Column("total_renewable_mw")[t] =
                   Column("pv_generation_mw")[t]
                   + Column("wind_generation_mw")[t]

=============================================================================
